---- MODULE Spec2Model ----
(***************************************************************************)
(* Project identity resolution of eng-llm-app: ProjectMapper (direct ID    *)
(* match, vector search, first-record fallback), ProjectVectorMapper (the  *)
(* embedding index: add_project, search_similar_projects,                  *)
(* generate_search_reasoning) and DocumentProcessor._apply_project_mapping *)
(* (the pipeline step that attaches the mapping to a report).              *)
(*                                                                         *)
(* Strings are sequences of one-character strings.  Scores (similarity,    *)
(* confidence) are integers in hundredths: 1.0 is 100, 0.05 is 5.  The     *)
(* vectors of the model are chosen so that every cosine is exact in        *)
(* hundredths.  The embedding backend is an external collaborator: its     *)
(* answer to one call is either a vector or a failure.                     *)
(***************************************************************************)
EXTENDS Integers, Sequences, FiniteSets, TLC

\* Number of project records the master file can hold.
NumProjects == 2

(***************************************************************************)
(* Strings and JSON values                                                 *)
(***************************************************************************)
P1 == <<"P", "1">>
P2 == <<"P", "2">>
P3 == <<"P", "3">>
\* An ID no master record carries (what a hallucinating extraction returns).
P9 == <<"P", "9">>
PaddedP1 == <<" ", "P", "1", " ">>
\* The sentinel "不明" (unknown), two ideographs.
Unknown == <<"fu", "mei">>
EmptyStr == <<>>
Wab == <<"a", "b">>
Wabc == <<"a", "b", "c">>
Wabd == <<"a", "b", "d">>
Wcd == <<"c", "d">>
Wa == <<"a">>

\* A JSON value under a key: the key is absent, null, a string or a number.
Absent == [kind |-> "absent", s |-> <<>>, n |-> 0]
Null == [kind |-> "null", s |-> <<>>, n |-> 0]
Str(s) == [kind |-> "str", s |-> s, n |-> 0]
Num(n) == [kind |-> "num", s |-> <<>>, n |-> n]

\* dict.get(key, default)
Get(v, default) == IF v.kind = "absent" THEN default ELSE v

\* dict.get(key): None when the key is absent
GetNone(v) == Get(v, Null)

\* Python truthiness of a value: None and "" are falsy
Truthy(v) == \/ v.kind = "str" /\ v.s # <<>>
             \/ v.kind = "num" /\ v.n # 0

RECURSIVE LStrip(_)
LStrip(s) == IF s # <<>> /\ Head(s) = " " THEN LStrip(Tail(s)) ELSE s

RECURSIVE RStrip(_)
RStrip(s) == IF s # <<>> /\ s[Len(s)] = " " THEN RStrip(SubSeq(s, 1, Len(s) - 1)) ELSE s

\* str.strip()
Strip(s) == RStrip(LStrip(s))

\* " ".join(parts)
RECURSIVE Join(_)
Join(parts) ==
    IF parts = <<>> THEN <<>>
    ELSE IF Len(parts) = 1 THEN parts[1]
    ELSE parts[1] \o <<" ">> \o Join(Tail(parts))

\* needle in haystack (substring test of two strings)
IsSubstring(needle, hay) ==
    \E i \in 1..(Len(hay) - Len(needle) + 1) :
        SubSeq(hay, i, i + Len(needle) - 1) = needle

SeqToSet(s) == {s[i] : i \in 1..Len(s)}

(***************************************************************************)
(* The project master                                                      *)
(***************************************************************************)
ProjectIdList == <<P1, P2, P3, <<"P", "4">>>>
ProjectIds == {ProjectIdList[i] : i \in 1..NumProjects}

\* The master record of one project (a row of project_reports_mapping.json).
MasterRecord(id) ==
    [project_id |-> id,
     station_name |-> IF id = P1 THEN Str(Wab) ELSE IF id = P2 THEN Str(Wabc) ELSE Str(Wa),
     station_number |-> IF id = P1 THEN Str(EmptyStr) ELSE Absent,
     location |-> IF id = P3 THEN Str(Wab \o <<" ">> \o Wcd) ELSE Str(Wcd),
     aurora_plan |-> IF id = P2 THEN Str(Unknown) ELSE Absent,
     responsible_person |-> IF id = P1 THEN Null ELSE Str(Wabd)]

\* Every content of the master file: a list of records with distinct IDs.
Masters ==
    {m \in UNION {[1..k -> {MasterRecord(id) : id \in ProjectIds}] : k \in 0..NumProjects} :
        \A i, j \in 1..Len(m) : i # j => m[i].project_id # m[j].project_id}

(***************************************************************************)
(* Vectors                                                                 *)
(***************************************************************************)
StoredVectors == {<<1, 0>>, <<3, 4>>}
QueryVectors == {<<1, 0>>, <<0, 1>>, <<-1, 0>>, <<0, 0>>}

Dot(v, w) == v[1] * w[1] + v[2] * w[2]

\* np.linalg.norm: exact on the vectors of the model
Norm(v) == CHOOSE r \in 0..(Dot(v, v)) : r * r = Dot(v, v)

\* ProjectVectorMapper._cosine_similarity, in hundredths
_cosine_similarity(vec1, vec2) ==
    IF Norm(vec1) = 0 \/ Norm(vec2) = 0 THEN 0
    ELSE (Dot(vec1, vec2) * 100) \div (Norm(vec1) * Norm(vec2))

(***************************************************************************)
(* State                                                                   *)
(***************************************************************************)
VARIABLES
    project_master,       \* ProjectMapper.project_master: the loaded master records
    vector_mapper,        \* ProjectMapper.vector_mapper is not None
    project_vectors,      \* ProjectVectorMapper.project_vectors, in insertion order
    project_metadata,     \* ProjectVectorMapper.project_metadata, in insertion order
    vector_cache_file,    \* project_vectors.pkl on disk
    metadata_cache_file,  \* project_metadata.json on disk
    op,                   \* the operation whose result the caller holds, or "idle"
    args,                 \* its arguments
    backend,              \* what the embedding backend answered, had it been called
    embed_called,         \* whether the operation called the embedding backend
    search_results,       \* the list search_similar_projects returned
    mapping,              \* what map_project did: the ProjectMapping or an exception
    report,               \* the DocumentReport fields _apply_project_mapping sets
    reasoning,            \* the dict generate_search_reasoning returned
    source_files,         \* the documents: content version of each source file
    index,                \* index.json: processed_files, one entry per source file
    json_files,           \* data/processed_reports/<stem>.json
    cache_files,          \* data/processed_reports/<stem>.cache
    cache_newer,          \* per stem: the cache's mtime >= the JSON's mtime
    json_path,            \* load_report_smart: the stem of its argument, 0 when none
    listing,              \* load_reports_parallel: cache_files and fallback_files
    pending,              \* cache files submitted to the executor and not yet started
    threads,              \* the executor's worker threads: what each is doing
    loaded,               \* the reports a load has collected or returned
    load_raised           \* the load ended with an exception

mapperVars == <<project_master, vector_mapper, project_vectors, project_metadata,
                vector_cache_file, metadata_cache_file, args, backend, embed_called,
                search_results, mapping, report, reasoning>>

cacheVars == <<source_files, index, json_files, cache_files, cache_newer, json_path,
               listing, pending, threads, loaded, load_raised>>

vars == <<project_master, vector_mapper, project_vectors, project_metadata,
          vector_cache_file, metadata_cache_file, op, args, backend, embed_called,
          search_results, mapping, report, reasoning, source_files, index, json_files,
          cache_files, cache_newer, json_path, listing, pending, threads, loaded,
          load_raised>>

\* One answer of ollama_client.embeddings: a vector, or an exception.
BackendFails == [ok |-> FALSE, embedding |-> <<0, 0>>]
Responses(vectors) == {[ok |-> TRUE, embedding |-> v] : v \in vectors} \cup {BackendFails}

(***************************************************************************)
(* ProjectVectorMapper: the embedding index                                *)
(***************************************************************************)
\* key in dict
HasKey(dict, key) == \E i \in 1..Len(dict) : dict[i].project_id = key

\* dict[key] = value: replaces the value of an existing key, else appends
DictSet(dict, key, entry) ==
    IF HasKey(dict, key)
    THEN [i \in 1..Len(dict) |-> IF dict[i].project_id = key THEN entry ELSE dict[i]]
    ELSE Append(dict, entry)

\* dict[key]
DictGet(dict, key) == dict[CHOOSE i \in 1..Len(dict) : dict[i].project_id = key]

Keys(dict) == {dict[i].project_id : i \in 1..Len(dict)}

\* add_project saves both caches each time the index size is a multiple of this
SaveEvery == 100

\* add_project without the check that the project is already in the index
add_project_unchecked(vectors, metadata, vfile, mfile, project_info, response) ==
    LET project_id == project_info.project_id
    IN  IF ~response.ok
        THEN [vectors |-> vectors, metadata |-> metadata, vfile |-> vfile,
              mfile |-> mfile, returns |-> FALSE, embed_called |-> TRUE]
        ELSE [vectors |-> DictSet(vectors, project_id,
                                  [project_id |-> project_id,
                                   embedding |-> response.embedding]),
              metadata |-> DictSet(metadata, project_id,
                                   [project_id |-> project_id, info |-> project_info]),
              vfile |-> vfile, mfile |-> mfile,
              returns |-> TRUE, embed_called |-> TRUE]

\* The state add_project leaves behind and what it returns.
add_project(vectors, metadata, vfile, mfile, project_info, response) ==
    LET project_id == project_info.project_id
        unchanged == [vectors |-> vectors, metadata |-> metadata, vfile |-> vfile,
                      mfile |-> mfile]
    IN  IF HasKey(vectors, project_id)
        THEN unchanged @@ [returns |-> TRUE, embed_called |-> FALSE]
        ELSE IF ~response.ok
        THEN unchanged @@ [returns |-> FALSE, embed_called |-> TRUE]
        ELSE LET v == DictSet(vectors, project_id,
                              [project_id |-> project_id, embedding |-> response.embedding])
                 m == DictSet(metadata, project_id,
                              [project_id |-> project_id, info |-> project_info])
                 save == Len(v) % SaveEvery = 0
             IN  [vectors |-> v, metadata |-> m,
                  vfile |-> IF save THEN v ELSE vfile,
                  mfile |-> IF save THEN m ELSE mfile,
                  returns |-> TRUE, embed_called |-> TRUE]

\* InsertDesc that puts an entry before the entries of equal similarity
RECURSIVE InsertDescUnstable(_, _)
InsertDescUnstable(sorted, x) ==
    IF sorted = <<>> THEN <<x>>
    ELSE IF Head(sorted).similarity_score > x.similarity_score
    THEN <<Head(sorted)>> \o InsertDescUnstable(Tail(sorted), x)
    ELSE <<x>> \o sorted

RECURSIVE InsertDesc(_, _)
InsertDesc(sorted, x) ==
    IF sorted = <<>> THEN <<x>>
    ELSE IF Head(sorted).similarity_score >= x.similarity_score
    THEN <<Head(sorted)>> \o InsertDesc(Tail(sorted), x)
    ELSE <<x>> \o sorted

RECURSIVE InsertAsc(_, _)
InsertAsc(sorted, x) ==
    IF sorted = <<>> THEN <<x>>
    ELSE IF Head(sorted).similarity_score <= x.similarity_score
    THEN <<Head(sorted)>> \o InsertAsc(Tail(sorted), x)
    ELSE <<x>> \o sorted

\* The sort without reverse=True: ascending similarity
RECURSIVE SortAsc(_)
SortAsc(list) ==
    IF list = <<>> THEN <<>>
    ELSE InsertAsc(SortAsc(SubSeq(list, 1, Len(list) - 1)), list[Len(list)])

RECURSIVE SortDesc(_)
\* list.sort(key=similarity, reverse=True): a stable sort, equal keys keep their order
SortDesc(list) ==
    IF list = <<>> THEN <<>>
    ELSE InsertDesc(SortDesc(SubSeq(list, 1, Len(list) - 1)), list[Len(list)])

\* The (project_id, similarity) pairs at or above the threshold, in index order.
RECURSIVE Similarities(_, _, _)
Similarities(vectors, query_vector, similarity_threshold) ==
    IF vectors = <<>> THEN <<>>
    ELSE LET e == Head(vectors)
             similarity == _cosine_similarity(query_vector, e.embedding)
             rest == Similarities(Tail(vectors), query_vector, similarity_threshold)
         IN  IF similarity >= similarity_threshold
             THEN <<[project_id |-> e.project_id, similarity_score |-> similarity]>> \o rest
             ELSE rest

\* similarities[:top_k]
Take(list, k) == SubSeq(list, 1, IF Len(list) < k THEN Len(list) ELSE k)

\* search_similar_projects that searches with a zero vector when the backend fails
search_similar_projects_zero_on_failure(vectors, top_k, similarity_threshold, response) ==
    IF vectors = <<>> THEN [results |-> <<>>, embed_called |-> FALSE]
    ELSE [results |-> Take(SortDesc(Similarities(vectors, response.embedding,
                                                 similarity_threshold)), top_k),
          embed_called |-> TRUE]

\* search_similar_projects: the list it returns and whether it called the backend
search_similar_projects(vectors, top_k, similarity_threshold, response) ==
    IF vectors = <<>> THEN [results |-> <<>>, embed_called |-> FALSE]
    ELSE IF ~response.ok THEN [results |-> <<>>, embed_called |-> TRUE]
    ELSE [results |-> Take(SortDesc(Similarities(vectors, response.embedding,
                                                 similarity_threshold)), top_k),
          embed_called |-> TRUE]

(***************************************************************************)
(* ProjectVectorMapper.generate_search_reasoning                           *)
(***************************************************************************)
\* The characters the word pattern of re.findall leaves out.
Separators == {" ", ":"}

\* re.findall(r'[...]+', text): the maximal runs of word characters, in order
RECURSIVE FindAll(_, _)
FindAll(text, word) ==
    IF text = <<>> THEN (IF word = <<>> THEN <<>> ELSE <<word>>)
    ELSE IF Head(text) \in Separators
    THEN (IF word = <<>> THEN <<>> ELSE <<word>>) \o FindAll(Tail(text), <<>>)
    ELSE FindAll(Tail(text), Append(word, Head(text)))

Words(text) == SeqToSet(FindAll(text, <<>>))

\* SequenceMatcher.find_longest_match: the longest common block, the earliest in a
\* among the longest, the earliest in b among those; <<0, 0, 0>> when there is none
LongestMatch(a, b) ==
    LET blocks == {c \in (1..Len(a)) \X (1..Len(b)) \X (1..Len(a)) :
                     /\ c[1] + c[3] - 1 <= Len(a)
                     /\ c[2] + c[3] - 1 <= Len(b)
                     /\ SubSeq(a, c[1], c[1] + c[3] - 1) = SubSeq(b, c[2], c[2] + c[3] - 1)}
    IN  IF blocks = {} THEN <<0, 0, 0>>
        ELSE CHOOSE c \in blocks : \A d \in blocks :
                \/ c[3] > d[3]
                \/ c[3] = d[3] /\ c[1] < d[1]
                \/ c[3] = d[3] /\ c[1] = d[1] /\ c[2] <= d[2]

\* The number of matched characters: the longest block, then the same to its left
\* and to its right (SequenceMatcher.get_matching_blocks)
RECURSIVE MatchingChars(_, _)
MatchingChars(a, b) ==
    LET m == LongestMatch(a, b)
    IN  IF m[3] = 0 THEN 0
        ELSE m[3]
             + MatchingChars(SubSeq(a, 1, m[1] - 1), SubSeq(b, 1, m[2] - 1))
             + MatchingChars(SubSeq(a, m[1] + m[3], Len(a)), SubSeq(b, m[2] + m[3], Len(b)))

\* SequenceMatcher(None, a, b).ratio() in hundredths, rounded down: 2.0 * M / T
Ratio(a, b) ==
    IF Len(a) + Len(b) = 0 THEN 100
    ELSE (200 * MatchingChars(a, b)) \div (Len(a) + Len(b))

\* a pair of words at or above this ratio is a fuzzy match (0.8)
FuzzyRatio == 80

\* words shorter than this are skipped
MinWordLen == 2

\* each match adds this to the confidence (0.05)
ConfidenceBoost == 5

\* the confidence of a result with matches is capped here (0.95)
MaxConfidence == 95

\* the confidence of a result without any match is capped here (0.6)
NoMatchConfidence == 60

MasterFields == {"station_name", "station_number", "location", "aurora_plan",
                 "responsible_person"}

Min(a, b) == IF a < b THEN a ELSE b

\* matched_elements a master field adds: 1 if its value is a substring of the query
\* text, else one per word of the value that is a word of the query
MatchedElements(field_value, query_text) ==
    IF ~Truthy(field_value) \/ field_value.s = Unknown THEN 0
    ELSE IF IsSubstring(field_value.s, query_text) THEN 1
    ELSE Cardinality({w \in Words(field_value.s) :
                        Len(w) >= MinWordLen /\ w \in Words(query_text)})

\* fuzzy_matches a master field adds: the pairs of a word of the value that is no
\* word of the query and a query word, both long enough, of ratio >= 0.8
FuzzyMatches(field_value, query_text) ==
    IF ~Truthy(field_value) \/ field_value.s = Unknown THEN 0
    ELSE IF IsSubstring(field_value.s, query_text) THEN 0
    ELSE Cardinality({p \in Words(field_value.s) \X Words(query_text) :
                        /\ Len(p[1]) >= MinWordLen
                        /\ p[1] \notin Words(query_text)
                        /\ Len(p[2]) >= MinWordLen
                        /\ Ratio(p[1], p[2]) >= FuzzyRatio})

\* field_value of a master field: project_metadata.get(field_key, '')
FieldValue(info, f) == Get(info[f], Str(EmptyStr))

RECURSIVE SumMatched(_, _, _)
SumMatched(fields, info, query_text) ==
    IF fields = {} THEN 0
    ELSE LET f == CHOOSE f \in fields : TRUE
         IN  MatchedElements(FieldValue(info, f), query_text)
             + SumMatched(fields \ {f}, info, query_text)

RECURSIVE SumFuzzy(_, _, _)
SumFuzzy(fields, info, query_text) ==
    IF fields = {} THEN 0
    ELSE LET f == CHOOSE f \in fields : TRUE
         IN  FuzzyMatches(FieldValue(info, f), query_text)
             + SumFuzzy(fields \ {f}, info, query_text)

\* project_metadata.get(project_id, {}): no field at all when the ID has no metadata
MetadataOf(metadata, project_id) ==
    IF HasKey(metadata, project_id) THEN DictGet(metadata, project_id).info
    ELSE [f \in MasterFields |-> Absent]

NoReasoning == [status |-> "none", confidence |-> 0, vector_similarity |-> 0,
                matched_elements |-> 0, fuzzy_matches |-> 0]

\* generate_search_reasoning without the limit on the boosted confidence
generate_search_reasoning_unlimited(metadata, query_text, results) ==
    IF results = <<>>
    THEN [status |-> "no_results", confidence |-> 0, vector_similarity |-> 0,
          matched_elements |-> 0, fuzzy_matches |-> 0]
    ELSE LET top_result == results[1]
             info == MetadataOf(metadata, top_result.project_id)
             matched == SumMatched(MasterFields, info, query_text)
             fuzzy == SumFuzzy(MasterFields, info, query_text)
         IN  [status |-> "vector_search_with_fuzzy",
              confidence |-> IF matched + fuzzy > 0
                             THEN top_result.similarity_score
                                  + (matched + fuzzy) * ConfidenceBoost
                             ELSE Min(top_result.similarity_score, NoMatchConfidence),
              vector_similarity |-> top_result.similarity_score,
              matched_elements |-> matched, fuzzy_matches |-> fuzzy]

generate_search_reasoning(metadata, query_text, results) ==
    IF results = <<>>
    THEN [status |-> "no_results", confidence |-> 0, vector_similarity |-> 0,
          matched_elements |-> 0, fuzzy_matches |-> 0]
    ELSE LET top_result == results[1]
             info == MetadataOf(metadata, top_result.project_id)
             matched == SumMatched(MasterFields, info, query_text)
             fuzzy == SumFuzzy(MasterFields, info, query_text)
             base == IF matched = 0 /\ fuzzy = 0
                     THEN Min(top_result.similarity_score, NoMatchConfidence)
                     ELSE top_result.similarity_score
             match_count == matched + fuzzy
         IN  [status |-> "vector_search_with_fuzzy",
              confidence |-> IF match_count > 0
                             THEN Min(base + match_count * ConfidenceBoost, MaxConfidence)
                             ELSE base,
              vector_similarity |-> top_result.similarity_score,
              matched_elements |-> matched, fuzzy_matches |-> fuzzy]

(***************************************************************************)
(* The query: llm_extracted_info, the dict the LLM extraction hands over   *)
(***************************************************************************)
QueryFields == {"station_name", "location", "station_number", "aurora_plan",
                "responsible_person"}

\* project_info with none of the five search fields
NoFields == [f \in QueryFields |-> Absent]

OneField(f, v) == [NoFields EXCEPT ![f] = v]

FieldShapes ==
    {NoFields}
    \cup {OneField("station_name", v) :
            v \in {Null, Str(EmptyStr), Str(Unknown), Str(Wab), Str(Wabd)}}
    \cup {OneField(f, Str(Wcd)) : f \in QueryFields \ {"station_name"}}
    \cup {[OneField("station_name", Str(Wab)) EXCEPT !["location"] = Str(Wcd)]}

CandidateIds == {Absent, Null, Str(EmptyStr), Str(Unknown), Str(P1), Str(P2),
                 Str(PaddedP1), Str(P9)}

\* pi: whether llm_info has the key project_info, holds null under it, or a dict
MakeQuery(pi, project_id, project_id_confidence, fields) ==
    [pi |-> pi, project_id |-> project_id,
     project_id_confidence |-> project_id_confidence, fields |-> fields]

\* The queries of the model: project_info missing or null; every candidate ID with
\* no search field and with one; every shape of the search fields with no
\* candidate ID and with an unregistered one; an ID with a confidence of the LLM.
Queries ==
    {MakeQuery(pi, Absent, Absent, NoFields) : pi \in {"absent", "null"}}
    \cup {MakeQuery("dict", c, Absent, f) :
            c \in CandidateIds, f \in {NoFields, OneField("station_name", Str(Wab))}}
    \cup {MakeQuery("dict", c, Absent, f) : c \in {Absent, Str(P9)}, f \in FieldShapes}
    \cup {MakeQuery("dict", c, Num(n), NoFields) :
            c \in {c \in CandidateIds : Truthy(c)}, n \in {50, 100}}

NoQuery == MakeQuery("absent", Absent, Absent, NoFields)

\* 'project_info' in llm_info and llm_info['project_info']: a non-empty dict
HasProjectInfo(q) ==
    /\ q.pi = "dict"
    /\ \/ q.project_id.kind # "absent"
       \/ q.project_id_confidence.kind # "absent"
       \/ \E f \in QueryFields : q.fields[f].kind # "absent"

(***************************************************************************)
(* ProjectMapper                                                           *)
(***************************************************************************)
NoneId == Null

Mapping(project_id, confidence_score, matching_method, alternative_candidates) ==
    [outcome |-> "returned", project_id |-> project_id,
     confidence_score |-> confidence_score, matching_method |-> matching_method,
     alternative_candidates |-> alternative_candidates]

\* The call ended in an exception instead of a ProjectMapping.
Raised == [outcome |-> "raised", project_id |-> NoneId, confidence_score |-> 0,
           matching_method |-> "exception", alternative_candidates |-> <<>>]

NoMapping == [outcome |-> "none", project_id |-> NoneId, confidence_score |-> 0,
              matching_method |-> "none", alternative_candidates |-> <<>>]

\* confidence_score of a direct match (1.0)
DirectConfidence == 100

\* confidence_score of the first-record fallback (0.1)
FallbackConfidence == 10

\* top_k map_project passes to the search
MapTopK == 5

\* similarity_threshold map_project passes to the search (0.0)
MapThreshold == 0

MasterIds(master) == {master[i].project_id : i \in 1..Len(master)}

\* The direct strategy looking the ID up among the records, not among their IDs:
\* it never finds it
_strategy_direct_id_extraction_in_records(master, q) ==
    LET raw == Get(q.project_id, Str(EmptyStr))
    IN  IF HasProjectInfo(q) /\ raw.kind # "str" THEN Raised
        ELSE Mapping(NoneId, 0, "direct_id_failed", <<>>)

_strategy_direct_id_extraction(master, q) ==
    LET raw == Get(q.project_id, Str(EmptyStr))
        failed == Mapping(NoneId, 0, "direct_id_failed", <<>>)
    IN  IF ~HasProjectInfo(q) THEN failed
        \* None.strip(): AttributeError, and nothing here catches it
        ELSE IF raw.kind # "str" THEN Raised
        ELSE LET llm_project_id == Strip(raw.s)
             IN  IF /\ llm_project_id # <<>>
                    /\ llm_project_id # Unknown
                    /\ llm_project_id \in MasterIds(master)
                 THEN Mapping(Str(llm_project_id), DirectConfidence, "llm_direct", <<>>)
                 ELSE failed

LabelStationName == <<"kyoku", "na", ":", " ">>
LabelLocation == <<"ba", "sho", ":", " ">>
LabelStationNumber == <<"kyoku", "ban", ":", " ">>
LabelAuroraPlan == <<"A", "u", "r", "o", "r", "a", "kei", "kaku", ":", " ">>
LabelResponsible == <<"tan", "tou", "sha", ":", " ">>

QueryPart(q, f, label) ==
    IF HasProjectInfo(q) /\ Truthy(q.fields[f]) THEN <<label \o q.fields[f].s>> ELSE <<>>

\* query_text of _strategy_vector_search: the labelled fields in priority order
BuildQueryText(q) ==
    Join(QueryPart(q, "station_name", LabelStationName)
         \o QueryPart(q, "location", LabelLocation)
         \o QueryPart(q, "station_number", LabelStationNumber)
         \o QueryPart(q, "aurora_plan", LabelAuroraPlan)
         \o QueryPart(q, "responsible_person", LabelResponsible))

\* search_results[1:] in place of search_results[1:3]
AlternativeCandidatesUncut(results) ==
    [i \in 1..(Len(results) - 1) |-> results[i + 1].project_id]

AlternativeCandidates(results) ==
    [i \in 1..(IF Len(results) > 3 THEN 2 ELSE Len(results) - 1) |-> results[i + 1].project_id]

\* What a strategy hands back: the ProjectMapping, the search results behind it and
\* whether the embedding backend was called.
Outcome(m, results, called) == [mapping |-> m, results |-> results, embed_called |-> called]

\* The vector strategy without the check for an empty query text
_strategy_vector_search_unchecked_query(vectors, q, response) ==
    LET search == search_similar_projects(vectors, MapTopK, MapThreshold, response)
    IN  IF search.results # <<>>
        THEN Outcome(Mapping(Str(search.results[1].project_id),
                             search.results[1].similarity_score,
                             "vector_search", AlternativeCandidates(search.results)),
                     search.results, search.embed_called)
        ELSE Outcome(Mapping(NoneId, 0, "vector_search_no_match", <<>>), <<>>,
                     search.embed_called)

\* Called only when vector_mapper is set.  The try block encloses no call that can
\* raise for a query of the shapes above: search_similar_projects catches its own.
_strategy_vector_search(vectors, q, response) ==
    LET query_text == BuildQueryText(q)
        search == search_similar_projects(vectors, MapTopK, MapThreshold, response)
    IN  IF Strip(query_text) = <<>>
        THEN Outcome(Mapping(NoneId, 0, "vector_search_no_query", <<>>), <<>>, FALSE)
        ELSE IF search.results # <<>>
        THEN Outcome(Mapping(Str(search.results[1].project_id),
                             search.results[1].similarity_score,
                             "vector_search", AlternativeCandidates(search.results)),
                     search.results, search.embed_called)
        ELSE Outcome(Mapping(NoneId, 0, "vector_search_no_match", <<>>), <<>>,
                     search.embed_called)

\* map_project falling back to the first record whenever the vector search
\* finds no project
map_project_fallback_on_no_match(master, has_vector_mapper, vectors, q, response) ==
    LET direct_mapping == _strategy_direct_id_extraction(master, q)
        fallback == Outcome(Mapping(Str(master[1].project_id), FallbackConfidence,
                                    "fallback_first_project", <<>>), <<>>, FALSE)
        vector_mapping == _strategy_vector_search(vectors, q, response)
    IN  IF direct_mapping.outcome = "raised" THEN Outcome(direct_mapping, <<>>, FALSE)
        ELSE IF direct_mapping.project_id # NoneId THEN Outcome(direct_mapping, <<>>, FALSE)
        ELSE IF has_vector_mapper /\ vector_mapping.mapping.project_id # NoneId
        THEN vector_mapping
        ELSE IF master # <<>> THEN fallback
        ELSE Outcome(direct_mapping, <<>>, FALSE)

map_project(master, has_vector_mapper, vectors, q, response) ==
    LET direct_mapping == _strategy_direct_id_extraction(master, q)
    IN  IF direct_mapping.outcome = "raised" THEN Outcome(direct_mapping, <<>>, FALSE)
        ELSE IF direct_mapping.project_id # NoneId THEN Outcome(direct_mapping, <<>>, FALSE)
        ELSE IF has_vector_mapper THEN _strategy_vector_search(vectors, q, response)
        ELSE IF master # <<>>
        THEN Outcome(Mapping(Str(master[1].project_id), FallbackConfidence,
                             "fallback_first_project", <<>>), <<>>, FALSE)
        ELSE Outcome(direct_mapping, <<>>, FALSE)

(***************************************************************************)
(* DocumentProcessor._apply_project_mapping                                *)
(***************************************************************************)
NoMappingInfo == [present |-> FALSE, confidence_score |-> Absent,
                  matching_method |-> "none", alternative_candidates |-> <<>>]

MappingInfo(confidence_score, matching_method, alternative_candidates) ==
    [present |-> TRUE, confidence_score |-> confidence_score,
     matching_method |-> matching_method,
     alternative_candidates |-> alternative_candidates]

\* A DocumentReport as _create_report_from_unified_analysis builds it
NewReport == [project_id |-> NoneId, project_mapping_info |-> NoMappingInfo,
              has_unexpected_values |-> FALSE, validation_issues |-> <<>>]

\* confidence the pipeline records for an ID of the LLM that reports none (0.8)
DefaultLLMConfidence == 80

\* a mapping below this confidence is marked for validation (0.7)
LowConfidence == 70

\* The except branch: any exception inside the try
MappingError(r) ==
    [r EXCEPT !.project_id = NoneId, !.has_unexpected_values = TRUE,
              !.validation_issues = Append(@, "mapping_error")]

\* The report _apply_project_mapping leaves behind, with the outcome of the
\* map_project call it made, if it made one.
_apply_project_mapping(r, master, has_vector_mapper, vectors, q, response) ==
    LET direct_project_id == GetNone(q.project_id)
        confidence == Get(q.project_id_confidence, Num(DefaultLLMConfidence))
        none == Outcome(NoMapping, <<>>, FALSE)
        mapped == map_project(master, has_vector_mapper, vectors, q, response)
        m == mapped.mapping
    IN  \* project_info is None: None.get raises inside the try
        IF q.pi = "null" THEN [report |-> MappingError(r), call |-> none]
        ELSE IF q.pi = "dict" /\ Truthy(direct_project_id)
                /\ direct_project_id # Str(Unknown)
        THEN [report |-> [r EXCEPT !.project_id = direct_project_id,
                                   !.project_mapping_info =
                                       MappingInfo(confidence, "llm_direct", <<>>)],
              call |-> none]
        ELSE IF m.outcome = "raised" THEN [report |-> MappingError(r), call |-> mapped]
        ELSE IF m.project_id # NoneId
        THEN [report |->
                [r EXCEPT !.project_id = m.project_id,
                          !.project_mapping_info =
                              MappingInfo(Num(m.confidence_score), m.matching_method,
                                          m.alternative_candidates),
                          !.has_unexpected_values =
                              IF m.confidence_score < LowConfidence THEN TRUE ELSE @,
                          !.validation_issues =
                              IF m.confidence_score < LowConfidence
                              THEN Append(@, "low_confidence") ELSE @],
              call |-> mapped]
        ELSE [report |-> [r EXCEPT !.project_id = NoneId,
                                   !.has_unexpected_values = TRUE,
                                   !.validation_issues = Append(@, "mapping_failed")],
              call |-> mapped]

(***************************************************************************)
(* The processed reports on disk: preprocessing and the cache loaders      *)
(***************************************************************************)
NumFiles == 2

\* The source documents, in the order index.json lists them.
Sources == 1..NumFiles

\* file_path.stem: documents of the same name in two folders, or with two
\* extensions, share their result file and their cache file.
StemOf(k) == ((k - 1) % 2) + 1
Stems == {StemOf(k) : k \in Sources}

\* The versions of a source document.
Contents == {1, 2}

\* file_path.stat().st_mtime of a source document when it is processed, and
\* datetime.now() when its report is serialized, which is later
SourceMtime == 1
ProcessedAt == 2

\* hashlib.md5(content).hexdigest()
_get_file_hash(content) == <<"md5", content>>
NoHash == <<>>

\* report.analysis_result: None, or the AnalysisResult of the LLM analysis
NoAnalysis == [present |-> FALSE, summary |-> "", status |-> ""]
Analysis == [present |-> TRUE, summary |-> "summary", status |-> "status"]

\* report.project_id as _apply_project_mapping sets it for the documents of the
\* model; 0 stands for None.
MappedProject == 1

\* The DocumentReport of a source document.
DocumentReport(file_name, created_at, analysis_result) ==
    [file_name |-> file_name, created_at |-> created_at,
     analysis_result |-> analysis_result, project_id |-> MappedProject]
NoReport == [DocumentReport(0, 0, NoAnalysis) EXCEPT !.project_id = 0]

\* _serialize_report: the analysis keeps its summary, issues, key_points and
\* confidence only; processed_at is the time of the call
_serialize_report(r) ==
    [file_name |-> r.file_name, created_at |-> r.created_at,
     analysis_result |-> IF r.analysis_result.present
                         THEN [r.analysis_result EXCEPT !.status = ""]
                         ELSE NoAnalysis,
     project_id |-> r.project_id,
     processed_at |-> ProcessedAt]
NoData == [file_name |-> 0, created_at |-> 0, analysis_result |-> NoAnalysis,
           project_id |-> 0, processed_at |-> 0]

\* _deserialize_report: the report, or None (the empty sequence).  created_at is
\* read from processed_at.  AnalysisResult(summary=, issues=, key_points=,
\* confidence=) lacks the required fields project_info, status, risk_level,
\* recommended_flags and urgency_score: the TypeError is caught and None returned.
_deserialize_report(data) ==
    IF data.analysis_result.present THEN <<>>
    ELSE <<[DocumentReport(data.file_name, data.processed_at, NoAnalysis)
               EXCEPT !.project_id = data.project_id]>>

\* A result file: missing, not JSON, or the JSON of a serialized report.
MissingJson == [kind |-> "missing", data |-> NoData]
InvalidJson == [kind |-> "invalid", data |-> NoData]
JsonOf(data) == [kind |-> "data", data |-> data]

\* A cache file: missing, not a pickle, or the pickle of a report.
MissingCache == [kind |-> "missing", report |-> NoReport]
CorruptBinary == [kind |-> "corrupt", report |-> NoReport]
PickleOf(r) == [kind |-> "pickle", report |-> r]

\* An entry of processed_files; a path field is 0 when the entry lacks it.
NoEntry == [status |-> "none", file_hash |-> NoHash, result_file |-> 0, cache_file |-> 0]
SuccessEntry(file_hash, stem) ==
    [status |-> "success", file_hash |-> file_hash, result_file |-> stem,
     cache_file |-> stem]
ErrorEntry(file_hash) ==
    [status |-> "error", file_hash |-> file_hash, result_file |-> 0, cache_file |-> 0]

\* _is_file_processed: the file has an entry and its stored hash is the current one
\* _is_file_processed that lets a failed document be retried
_is_file_processed_success_only(idx, sources, k) ==
    /\ idx[k].status = "success"
    /\ idx[k].file_hash = _get_file_hash(sources[k])

_is_file_processed(idx, sources, k) ==
    /\ idx[k].status # "none"
    /\ idx[k].file_hash = _get_file_hash(sources[k])

\* What process_single_document returns (Optional[DocumentReport]): None, a report
\* whose analysis_result is None, or a report with an AnalysisResult.
ProcessOutcomes == {"none", "plain", "analysed"}

\* What becomes of the write of the cache file (lines 122-127, inside a try of its
\* own): it is written; open refuses and the file stays as it was; or pickle.dump
\* fails and leaves a truncated file.
CacheWrites == {"written", "refused", "truncated"}

\* The cache file and whether it is as recent as the JSON file just written.
WriteCache(caches, newer, stem, r, cache_write) ==
    IF cache_write = "written"
    THEN [cache_files |-> [caches EXCEPT ![stem] = PickleOf(r)],
          cache_newer |-> [newer EXCEPT ![stem] = TRUE]]
    ELSE IF cache_write = "truncated"
    THEN [cache_files |-> [caches EXCEPT ![stem] = CorruptBinary],
          cache_newer |-> [newer EXCEPT ![stem] = TRUE]]
    ELSE [cache_files |-> caches,
          cache_newer |-> [newer EXCEPT ![stem] = caches[stem].kind = "missing"]]

\* process_single_file writing the cache file before the JSON file
process_single_file_cache_first(idx, sources, jsons, caches, newer, k, force, processed, cache_write) ==
    LET stem == StemOf(k)
        r == DocumentReport(stem, SourceMtime,
                            IF processed = "analysed" THEN Analysis ELSE NoAnalysis)
        same == [index |-> idx, json_files |-> jsons, cache_files |-> caches,
                 cache_newer |-> newer]
        written == WriteCache(caches, newer, stem, r, cache_write)
    IN  IF ~force /\ _is_file_processed(idx, sources, k)
        THEN same @@ [status |-> "skipped"]
        ELSE IF processed # "none"
        THEN [index |-> [idx EXCEPT ![k] = SuccessEntry(_get_file_hash(sources[k]), stem)],
              json_files |-> [jsons EXCEPT ![stem] = JsonOf(_serialize_report(r))],
              cache_files |-> written.cache_files,
              cache_newer |-> [newer EXCEPT ![stem] =
                                  written.cache_files[stem].kind = "missing"],
              status |-> "success"]
        ELSE [same EXCEPT !.index = [idx EXCEPT ![k] = ErrorEntry(_get_file_hash(sources[k]))]]
             @@ [status |-> "error"]

\* process_single_file from the point where process_single_document has answered
process_single_file(idx, sources, jsons, caches, newer, k, force, processed, cache_write) ==
    LET stem == StemOf(k)
        r == DocumentReport(stem, SourceMtime,
                            IF processed = "analysed" THEN Analysis ELSE NoAnalysis)
        same == [index |-> idx, json_files |-> jsons, cache_files |-> caches,
                 cache_newer |-> newer]
        written == WriteCache(caches, newer, stem, r, cache_write)
    IN  IF ~force /\ _is_file_processed(idx, sources, k)
        THEN same @@ [status |-> "skipped"]
        ELSE IF processed # "none"
        THEN [index |-> [idx EXCEPT ![k] = SuccessEntry(_get_file_hash(sources[k]), stem)],
              json_files |-> [jsons EXCEPT ![stem] = JsonOf(_serialize_report(r))],
              cache_files |-> written.cache_files,
              cache_newer |-> written.cache_newer,
              status |-> "success"]
        ELSE [same EXCEPT !.index = [idx EXCEPT ![k] = ErrorEntry(_get_file_hash(sources[k]))]]
             @@ [status |-> "error"]

\* load_report_smart(json_path): the report or None, and the cache files it leaves
load_report_smart(jsons, caches, newer, stem) ==
    LET use_cache == /\ caches[stem].kind # "missing"
                     /\ (jsons[stem].kind = "missing" \/ newer[stem])
        unlinked == IF use_cache THEN [caches EXCEPT ![stem] = MissingCache] ELSE caches
        r == IF jsons[stem].kind = "data" THEN _deserialize_report(jsons[stem].data)
             ELSE <<>>
    IN  IF use_cache /\ caches[stem].kind = "pickle"
        THEN [result |-> <<caches[stem].report>>, cache_files |-> caches,
              cache_newer |-> newer]
        ELSE IF r # <<>>
        THEN [result |-> r, cache_files |-> [unlinked EXCEPT ![stem] = PickleOf(r[1])],
              cache_newer |-> [newer EXCEPT ![stem] = TRUE]]
        ELSE [result |-> <<>>, cache_files |-> unlinked,
              cache_newer |-> IF use_cache THEN [newer EXCEPT ![stem] = TRUE] ELSE newer]

\* load_reports_parallel, lines 43-78: the cache files to read in parallel and the
\* JSON files to read instead, over the first k index entries.
NoListing == [cache_files |-> <<>>, fallback_files |-> <<>>]
RECURSIVE Classify(_, _, _, _, _)
Classify(idx, jsons, caches, newer, k) ==
    IF k = 0 THEN NoListing
    ELSE LET before == Classify(idx, jsons, caches, newer, k - 1)
             e == idx[k]
             json_exists == e.result_file # 0 /\ jsons[e.result_file].kind # "missing"
         IN  IF e.status # "success" \/ e.cache_file = 0 THEN before
             ELSE IF caches[e.cache_file].kind # "missing"
             THEN IF json_exists /\ ~newer[e.cache_file]
                  THEN [before EXCEPT !.fallback_files = Append(@, e.result_file)]
                  ELSE [before EXCEPT !.cache_files = Append(@, e.cache_file)]
             ELSE IF json_exists
             THEN [before EXCEPT !.fallback_files = Append(@, e.result_file)]
             ELSE before

\* _load_json_files_with_cache_generation over the first k fallback files
RECURSIVE _load_json_files_with_cache_generation(_, _, _, _, _)
_load_json_files_with_cache_generation(jsons, caches, newer, fallback_files, k) ==
    IF k = 0 THEN [reports |-> <<>>, cache_files |-> caches, cache_newer |-> newer]
    ELSE LET before == _load_json_files_with_cache_generation(jsons, caches, newer,
                                                              fallback_files, k - 1)
             stem == fallback_files[k]
             r == IF jsons[stem].kind = "data" THEN _deserialize_report(jsons[stem].data)
                  ELSE <<>>
         IN  IF r = <<>> THEN before
             ELSE [reports |-> before.reports \o r,
                   cache_files |-> [before.cache_files EXCEPT ![stem] = PickleOf(r[1])],
                   cache_newer |-> [before.cache_newer EXCEPT ![stem] = TRUE]]

\* load_reports_streaming over the first k index entries: lines 42-48 list the
\* entries whose result file exists (file_info["result_file"] raises KeyError when
\* the entry has no such field), lines 59-85 load each with load_report_smart.
RECURSIVE load_reports_streaming(_, _, _, _, _)
load_reports_streaming(idx, jsons, caches, newer, k) ==
    IF k = 0
    THEN [raised |-> FALSE, reports |-> <<>>, cache_files |-> caches, cache_newer |-> newer]
    ELSE LET before == load_reports_streaming(idx, jsons, caches, newer, k - 1)
             e == idx[k]
             got == load_report_smart(jsons, before.cache_files, before.cache_newer,
                                      e.result_file)
         IN  IF e.status # "success" THEN before
             ELSE IF e.result_file = 0 THEN [before EXCEPT !.raised = TRUE]
             ELSE IF jsons[e.result_file].kind = "missing" THEN before
             ELSE [raised |-> before.raised, reports |-> before.reports \o got.result,
                   cache_files |-> got.cache_files, cache_newer |-> got.cache_newer]

\* _load_single_cache_file that gives up when the cache cannot be read
JsonFallbackNone(jsons, stem) == <<>>

\* pickle.load(cache_file): the report, or an exception (the empty sequence)
PickleLoad(caches, stem) ==
    IF caches[stem].kind = "pickle" THEN <<caches[stem].report>> ELSE <<>>

\* _load_single_cache_file, lines 138-145: the report read from the JSON file next
\* to the cache file, or None
JsonFallback(jsons, stem) ==
    IF jsons[stem].kind = "data" THEN _deserialize_report(jsons[stem].data) ELSE <<>>

\* A worker thread of the executor: free, or at a line of _load_single_cache_file.
FreeThread == [pc |-> "free", stem |-> 0, report |-> NoReport]

\* The state before any document is processed, and between two loads.
NoDocuments ==
    /\ source_files = [k \in Sources |-> 1]
    /\ index = [k \in Sources |-> NoEntry]
    /\ json_files = [s \in Stems |-> MissingJson]
    /\ cache_files = [s \in Stems |-> MissingCache]
    /\ cache_newer = [s \in Stems |-> TRUE]

NoLoad ==
    /\ json_path = 0
    /\ listing = NoListing
    /\ pending = <<>>
    /\ threads = <<>>
    /\ loaded = <<>>
    /\ load_raised = FALSE

(***************************************************************************)
(* The state machine                                                       *)
(***************************************************************************)
\* top_k of search_similar_projects when the caller passes none
DefaultTopK == 5

\* similarity_threshold of search_similar_projects when the caller passes none (0.3)
DefaultThreshold == 30

TopKs == {1, 2, DefaultTopK}
Thresholds == {-100, 0, DefaultThreshold}

\* The query texts a search is called with.
SearchTexts ==
    {BuildQueryText(MakeQuery("dict", Absent, Absent, f)) :
        f \in {OneField("station_name", Str(Wab)), OneField("station_name", Str(Wabd)),
                [OneField("station_name", Str(Wab)) EXCEPT !["location"] = Str(Wcd)]}}

NoArgs == [query |-> NoQuery, query_text |-> <<>>, top_k |-> 0,
           similarity_threshold |-> 0, project_id |-> NoneId]

\* The answer of the backend as the state records it: none when it was not called.
Answer(called, response) == IF called THEN response ELSE BackendFails

Init ==
    /\ project_master \in Masters
    /\ vector_mapper \in BOOLEAN
    /\ project_vectors = <<>>
    /\ project_metadata = <<>>
    /\ vector_cache_file = <<>>
    /\ metadata_cache_file = <<>>
    /\ op = "idle"
    /\ args = NoArgs
    /\ backend = BackendFails
    /\ embed_called = FALSE
    /\ search_results = <<>>
    /\ mapping = NoMapping
    /\ report = NewReport
    /\ reasoning = NoReasoning
    /\ NoDocuments
    /\ NoLoad

\* add_project(project_info) for a record of the master, as
\* update_project_vectors_from_master calls it
AddProject(project_info, response) ==
    LET done == add_project(project_vectors, project_metadata, vector_cache_file,
                            metadata_cache_file, project_info, response)
    IN  /\ op = "idle"
        /\ vector_mapper
        /\ project_vectors' = done.vectors
        /\ project_metadata' = done.metadata
        /\ vector_cache_file' = done.vfile
        /\ metadata_cache_file' = done.mfile
        /\ op' = IF done.returns THEN "add_project" ELSE "add_project_failed"
        /\ args' = [NoArgs EXCEPT !.project_id = Str(project_info.project_id)]
        /\ backend' = Answer(done.embed_called, response)
        /\ embed_called' = done.embed_called
        /\ search_results' = <<>>
        /\ mapping' = NoMapping
        /\ report' = NewReport
        /\ reasoning' = NoReasoning
        /\ UNCHANGED <<project_master, vector_mapper>>
        /\ UNCHANGED cacheVars

\* search_similar_projects(query_text, top_k, similarity_threshold)
Search(query_text, top_k, similarity_threshold, response) ==
    LET done == search_similar_projects(project_vectors, top_k, similarity_threshold,
                                        response)
    IN  /\ op = "idle"
        /\ vector_mapper
        /\ op' = "search_similar_projects"
        /\ args' = [NoArgs EXCEPT !.query_text = query_text, !.top_k = top_k,
                                  !.similarity_threshold = similarity_threshold]
        /\ backend' = Answer(done.embed_called, response)
        /\ embed_called' = done.embed_called
        /\ search_results' = done.results
        /\ mapping' = NoMapping
        /\ report' = NewReport
        /\ reasoning' = NoReasoning
        /\ UNCHANGED <<project_master, vector_mapper, project_vectors, project_metadata,
                       vector_cache_file, metadata_cache_file>>
        /\ UNCHANGED cacheVars

\* generate_search_reasoning(query_text, search_results) on what a search returned
GenerateSearchReasoning ==
    /\ vector_mapper
    /\ op = "search_similar_projects"
    /\ op' = "generate_search_reasoning"
    /\ reasoning' = generate_search_reasoning(project_metadata, args.query_text,
                                              search_results)
    /\ UNCHANGED <<project_master, vector_mapper, project_vectors, project_metadata,
                   vector_cache_file, metadata_cache_file, args, backend, embed_called,
                   search_results, mapping, report>>
    /\ UNCHANGED cacheVars

\* ProjectMapper.map_project(report_content, llm_extracted_info)
MapProject(q, response) ==
    LET done == map_project(project_master, vector_mapper, project_vectors, q, response)
    IN  /\ op = "idle"
        /\ op' = "map_project"
        /\ args' = [NoArgs EXCEPT !.query = q, !.query_text = BuildQueryText(q),
                                  !.top_k = MapTopK,
                                  !.similarity_threshold = MapThreshold]
        /\ backend' = Answer(done.embed_called, response)
        /\ embed_called' = done.embed_called
        /\ search_results' = done.results
        /\ mapping' = done.mapping
        /\ report' = NewReport
        /\ reasoning' = NoReasoning
        /\ UNCHANGED <<project_master, vector_mapper, project_vectors, project_metadata,
                       vector_cache_file, metadata_cache_file>>
        /\ UNCHANGED cacheVars

\* DocumentProcessor._apply_project_mapping(report, llm_result) on a new report
ApplyProjectMapping(q, response) ==
    LET done == _apply_project_mapping(NewReport, project_master, vector_mapper,
                                       project_vectors, q, response)
    IN  /\ op = "idle"
        /\ op' = "_apply_project_mapping"
        /\ args' = [NoArgs EXCEPT !.query = q, !.query_text = BuildQueryText(q),
                                  !.top_k = MapTopK,
                                  !.similarity_threshold = MapThreshold]
        /\ backend' = Answer(done.call.embed_called, response)
        /\ embed_called' = done.call.embed_called
        /\ search_results' = done.call.results
        /\ mapping' = done.call.mapping
        /\ report' = done.report
        /\ reasoning' = NoReasoning
        /\ UNCHANGED <<project_master, vector_mapper, project_vectors, project_metadata,
                       vector_cache_file, metadata_cache_file>>
        /\ UNCHANGED cacheVars

\* The process ends between two calls.  No exit handler is registered and no
\* destructor defined: nothing is written, and nothing runs afterwards.
Shutdown ==
    /\ op = "idle"
    /\ op' = "exit"
    /\ UNCHANGED mapperVars
    /\ UNCHANGED cacheVars

\* The caller takes the result; the next call starts from the state left behind.
Return ==
    /\ op \notin {"idle", "exit"}
    /\ op' = "idle"
    /\ args' = NoArgs
    /\ backend' = BackendFails
    /\ embed_called' = FALSE
    /\ search_results' = <<>>
    /\ mapping' = NoMapping
    /\ report' = NewReport
    /\ reasoning' = NoReasoning
    /\ UNCHANGED <<project_master, vector_mapper, project_vectors, project_metadata,
                   vector_cache_file, metadata_cache_file>>
    /\ UNCHANGED cacheVars

Next ==
    \/ \E i \in 1..Len(project_master), response \in Responses(StoredVectors) :
          AddProject(project_master[i], response)
    \/ \E query_text \in SearchTexts, top_k \in TopKs,
          similarity_threshold \in Thresholds, response \in Responses(QueryVectors) :
          Search(query_text, top_k, similarity_threshold, response)
    \/ GenerateSearchReasoning
    \/ \E q \in Queries, response \in Responses(QueryVectors) : MapProject(q, response)
    \/ \E q \in Queries, response \in Responses(QueryVectors) :
          ApplyProjectMapping(q, response)
    \/ Return
    \/ Shutdown

Spec == Init /\ [][Next]_vars

(***************************************************************************)
(* The embedding index and its cache files over the life of the master     *)
(***************************************************************************)
\* The content of a cache file that pickle.load / json.load rejects.
CorruptVectorBlob == <<[project_id |-> <<"?">>, embedding |-> <<0, 0>>]>>
CorruptMetadataBlob == <<[project_id |-> <<"?">>, info |-> MasterRecord(<<"?">>)]>>

\* _load_vector_cache: the pickled dict, or {} when the file is missing or unreadable
_load_vector_cache(vfile) == IF vfile = CorruptVectorBlob THEN <<>> ELSE vfile

\* _load_metadata_cache: the JSON dict, or {} when the file is missing or unreadable
_load_metadata_cache(mfile) == IF mfile = CorruptMetadataBlob THEN <<>> ELSE mfile

\* The loop of update_project_vectors_from_master over the first k master records:
\* add_project for each, counting the calls that returned True.
RECURSIVE AddAll(_, _, _, _, _, _, _)
AddAll(vectors, metadata, vfile, mfile, projects, responses, k) ==
    IF k = 0
    THEN [vectors |-> vectors, metadata |-> metadata, vfile |-> vfile, mfile |-> mfile,
          added_count |-> 0, embed_called |-> FALSE]
    ELSE LET before == AddAll(vectors, metadata, vfile, mfile, projects, responses, k - 1)
             done == add_project(before.vectors, before.metadata, before.vfile,
                                 before.mfile, projects[k], responses[k])
         IN  [vectors |-> done.vectors, metadata |-> done.metadata,
              vfile |-> done.vfile, mfile |-> done.mfile,
              added_count |-> before.added_count + (IF done.returns THEN 1 ELSE 0),
              embed_called |-> before.embed_called \/ done.embed_called]

\* update_project_vectors_from_master: add every master record, then save both caches
update_project_vectors_from_master(vectors, metadata, vfile, mfile, projects, responses) ==
    LET done == AddAll(vectors, metadata, vfile, mfile, projects, responses,
                       Len(projects))
    IN  [done EXCEPT !.vfile = done.vectors, !.mfile = done.metadata]

\* The station name an edit of the master file gives a record.
RevisedName == Str(Wcd)

\* The queries resolved against the index in this part.
IndexQueries == {MakeQuery("dict", Absent, Absent, OneField("station_name", Str(Wab)))}

IndexInit ==
    /\ project_master \in {m \in Masters : Len(m) = NumProjects}
    /\ vector_mapper = TRUE
    /\ project_vectors = <<>>
    /\ project_metadata = <<>>
    /\ vector_cache_file = <<>>
    /\ metadata_cache_file = <<>>
    /\ op = "idle"
    /\ args = NoArgs
    /\ backend = BackendFails
    /\ embed_called = FALSE
    /\ search_results = <<>>
    /\ mapping = NoMapping
    /\ report = NewReport
    /\ reasoning = NoReasoning
    /\ NoDocuments
    /\ NoLoad

\* ProjectVectorMapper.__init__, as ProjectMapper.__init__ runs it: both caches are loaded
Construct ==
    /\ op = "idle"
    /\ op' = "__init__"
    /\ vector_mapper' = TRUE
    /\ project_vectors' = _load_vector_cache(vector_cache_file)
    /\ project_metadata' = _load_metadata_cache(metadata_cache_file)
    /\ UNCHANGED <<project_master, vector_cache_file, metadata_cache_file, args, backend,
                   embed_called, search_results, mapping, report, reasoning>>
    /\ UNCHANGED cacheVars

\* update_project_vectors_from_master()
UpdateFromMaster(responses) ==
    LET done == update_project_vectors_from_master(
                    project_vectors, project_metadata, vector_cache_file,
                    metadata_cache_file, project_master, responses)
    IN  /\ op = "idle"
        /\ vector_mapper
        /\ op' = "update_project_vectors_from_master"
        /\ project_vectors' = done.vectors
        /\ project_metadata' = done.metadata
        /\ vector_cache_file' = done.vfile
        /\ metadata_cache_file' = done.mfile
        /\ embed_called' = done.embed_called
        /\ UNCHANGED <<project_master, vector_mapper, args, backend, search_results,
                       mapping, report, reasoning>>
        /\ UNCHANGED cacheVars

\* The master file is edited: the station name of one record changes.
ReviseMaster(i) ==
    /\ op = "idle"
    /\ project_master[i].station_name # RevisedName
    /\ project_master' = [project_master EXCEPT ![i].station_name = RevisedName]
    /\ UNCHANGED <<vector_mapper, project_vectors, project_metadata, vector_cache_file,
                   metadata_cache_file, op, args, backend, embed_called, search_results,
                   mapping, report, reasoning>>
    /\ UNCHANGED cacheVars

\* A cache file is damaged on disk.
CorruptCache(vector_file) ==
    /\ op = "idle"
    /\ IF vector_file
       THEN /\ vector_cache_file # CorruptVectorBlob
            /\ vector_cache_file' = CorruptVectorBlob
            /\ UNCHANGED metadata_cache_file
       ELSE /\ metadata_cache_file # CorruptMetadataBlob
            /\ metadata_cache_file' = CorruptMetadataBlob
            /\ UNCHANGED vector_cache_file
    /\ UNCHANGED <<project_master, vector_mapper, project_vectors, project_metadata, op,
                   args, backend, embed_called, search_results, mapping, report, reasoning>>
    /\ UNCHANGED cacheVars

IndexNext ==
    \/ \E i \in 1..Len(project_master), response \in Responses(StoredVectors) :
          AddProject(project_master[i], response)
    \/ \E responses \in [1..Len(project_master) -> Responses(StoredVectors)] :
          UpdateFromMaster(responses)
    \/ \E i \in 1..Len(project_master) : ReviseMaster(i)
    \/ \E vector_file \in BOOLEAN : CorruptCache(vector_file)
    \/ Construct
    \/ \E q \in IndexQueries, response \in Responses(QueryVectors) : MapProject(q, response)
    \/ Return

IndexSpec == IndexInit /\ [][IndexNext]_vars

(***************************************************************************)
(* Preprocessing and loading the processed reports                         *)
(***************************************************************************)
\* max_workers of CacheLoader
MaxWorkers == 2

CacheInit ==
    /\ project_master = <<>>
    /\ vector_mapper = FALSE
    /\ project_vectors = <<>>
    /\ project_metadata = <<>>
    /\ vector_cache_file = <<>>
    /\ metadata_cache_file = <<>>
    /\ op = "idle"
    /\ args = NoArgs
    /\ backend = BackendFails
    /\ embed_called = FALSE
    /\ search_results = <<>>
    /\ mapping = NoMapping
    /\ report = NewReport
    /\ reasoning = NoReasoning
    /\ NoDocuments
    /\ NoLoad

\* PreprocessingService.process_single_file(file_path, force)
ProcessSingleFile(k, force, processed, cache_write) ==
    LET done == process_single_file(index, source_files, json_files, cache_files,
                                    cache_newer, k, force, processed, cache_write)
    IN  /\ op = "idle"
        /\ done.status # "skipped"
        /\ processed = "none" => cache_write = "written"
        /\ index' = done.index
        /\ json_files' = done.json_files
        /\ cache_files' = done.cache_files
        /\ cache_newer' = done.cache_newer
        /\ UNCHANGED <<op, source_files, json_path, listing, pending, threads, loaded,
                       load_raised>>
        /\ UNCHANGED mapperVars

\* A processed source document is edited.
ChangeSource(k) ==
    /\ op = "idle"
    /\ index[k].status = "success"
    /\ source_files[k] = 1
    /\ source_files' = [source_files EXCEPT ![k] = 2]
    /\ UNCHANGED <<op, index, json_files, cache_files, cache_newer, json_path, listing,
                   pending, threads, loaded, load_raised>>
    /\ UNCHANGED mapperVars

\* A cache file is truncated or overwritten with bytes that are no pickle.
DamageCache(stem) ==
    /\ op = "idle"
    /\ cache_files[stem].kind = "pickle"
    /\ cache_files' = [cache_files EXCEPT ![stem] = CorruptBinary]
    /\ cache_newer' = [cache_newer EXCEPT ![stem] = TRUE]
    /\ UNCHANGED <<op, source_files, index, json_files, json_path, listing, pending,
                   threads, loaded, load_raised>>
    /\ UNCHANGED mapperVars

\* A result file is rewritten: with the same JSON or with bytes that are no JSON.
\* Its mtime is then later than the cache's.
RewriteJson(stem, valid) ==
    /\ op = "idle"
    /\ json_files[stem].kind = "data"
    /\ json_files' = IF valid THEN json_files
                     ELSE [json_files EXCEPT ![stem] = InvalidJson]
    /\ cache_newer' = [cache_newer EXCEPT ![stem] = cache_files[stem].kind = "missing"]
    /\ valid => cache_newer[stem] /\ cache_files[stem].kind # "missing"
    /\ UNCHANGED <<op, source_files, index, cache_files, json_path, listing, pending,
                   threads, loaded, load_raised>>
    /\ UNCHANGED mapperVars

\* A result file or a cache file is deleted.
RemoveFile(stem, is_cache) ==
    /\ op = "idle"
    /\ IF is_cache
       THEN /\ cache_files[stem].kind # "missing"
            /\ cache_files' = [cache_files EXCEPT ![stem] = MissingCache]
            /\ UNCHANGED json_files
       ELSE /\ json_files[stem].kind # "missing"
            /\ json_files' = [json_files EXCEPT ![stem] = MissingJson]
            /\ UNCHANGED cache_files
    /\ cache_newer' = [cache_newer EXCEPT ![stem] = TRUE]
    /\ UNCHANGED <<op, source_files, index, json_path, listing, pending, threads, loaded,
                   load_raised>>
    /\ UNCHANGED mapperVars

\* An index entry is written without one of its path fields.
DropPathField(k, is_cache) ==
    /\ op = "idle"
    /\ index[k].status = "success"
    /\ IF is_cache
       THEN /\ index[k].cache_file # 0 /\ index[k].result_file # 0
            /\ index' = [index EXCEPT ![k].cache_file = 0]
       ELSE /\ index[k].result_file # 0 /\ index[k].cache_file # 0
            /\ index' = [index EXCEPT ![k].result_file = 0]
    /\ UNCHANGED <<op, source_files, json_files, cache_files, cache_newer, json_path,
                   listing, pending, threads, loaded, load_raised>>
    /\ UNCHANGED mapperVars

\* CacheLoader.load_report_smart(json_path)
LoadReportSmart(stem) ==
    LET done == load_report_smart(json_files, cache_files, cache_newer, stem)
    IN  /\ op = "idle"
        /\ op' = "load_report_smart"
        /\ json_path' = stem
        /\ loaded' = done.result
        /\ cache_files' = done.cache_files
        /\ cache_newer' = done.cache_newer
        /\ UNCHANGED <<source_files, index, json_files, listing, pending, threads,
                       load_raised>>
        /\ UNCHANGED mapperVars

\* load_reports_parallel, lines 35-84: the index is read, the files are listed and
\* the cache files are submitted to an executor of max_workers threads.
StartParallel(max_workers) ==
    LET lists == Classify(index, json_files, cache_files, cache_newer, NumFiles)
    IN  /\ op = "idle"
        /\ op' = "loading"
        /\ listing' = lists
        /\ pending' = lists.cache_files
        /\ threads' = [i \in 1..max_workers |-> FreeThread]
        /\ loaded' = <<>>
        /\ UNCHANGED <<source_files, index, json_files, cache_files, cache_newer,
                       json_path, load_raised>>
        /\ UNCHANGED mapperVars

\* One step of a worker thread in _load_single_cache_file.  The report of a task
\* is collected, in the order of completion, when the task ends.
ThreadStep(i) ==
    LET th == threads[i]
        stem == IF th.pc = "free" THEN Head(pending) ELSE th.stem
    IN  /\ op = "loading"
        /\ th.pc = "free" => pending # <<>>
        /\ CASE th.pc = "free" ->
                   \* lines 125-126: open the cache file and unpickle it
                   LET got == PickleLoad(cache_files, stem)
                   IN  /\ pending' = Tail(pending)
                       /\ loaded' = loaded \o got
                       /\ threads' = IF got # <<>> THEN threads
                                     ELSE [threads EXCEPT ![i] = [pc |-> "unlink",
                                               stem |-> stem, report |-> NoReport]]
                       /\ UNCHANGED <<cache_files, cache_newer>>
             [] th.pc = "unlink" ->
                   \* line 132: cache_file.unlink(missing_ok=True)
                   /\ cache_files' = [cache_files EXCEPT ![stem] = MissingCache]
                   /\ cache_newer' = [cache_newer EXCEPT ![stem] = TRUE]
                   /\ threads' = [threads EXCEPT ![i].pc = "json"]
                   /\ UNCHANGED <<pending, loaded>>
             [] th.pc = "json" ->
                   \* lines 138-145: read the JSON file and deserialize it
                   LET got == JsonFallback(json_files, stem)
                   IN  /\ threads' = IF got = <<>> THEN [threads EXCEPT ![i] = FreeThread]
                                     ELSE [threads EXCEPT ![i].pc = "open",
                                                          ![i].report = got[1]]
                       /\ UNCHANGED <<pending, loaded, cache_files, cache_newer>>
             [] th.pc = "open" ->
                   \* line 148: open(cache_file, 'wb') leaves an empty file
                   /\ cache_files' = [cache_files EXCEPT ![stem] = CorruptBinary]
                   /\ cache_newer' = [cache_newer EXCEPT ![stem] = TRUE]
                   /\ threads' = [threads EXCEPT ![i].pc = "dump"]
                   /\ UNCHANGED <<pending, loaded>>
             [] th.pc = "dump" ->
                   \* lines 149-153: pickle.dump(report, f); return report
                   /\ cache_files' = [cache_files EXCEPT ![stem] = PickleOf(th.report)]
                   /\ cache_newer' = [cache_newer EXCEPT ![stem] = TRUE]
                   /\ loaded' = Append(loaded, th.report)
                   /\ threads' = [threads EXCEPT ![i] = FreeThread]
                   /\ UNCHANGED pending
        /\ UNCHANGED <<op, source_files, index, json_files, json_path, listing,
                       load_raised>>
        /\ UNCHANGED mapperVars

\* load_reports_parallel, lines 89-97: every cache file is done; the fallback files
\* are read one after the other and the reports are returned.
FinishParallel ==
    LET done == _load_json_files_with_cache_generation(
                    json_files, cache_files, cache_newer, listing.fallback_files,
                    Len(listing.fallback_files))
    IN  /\ op = "loading"
        /\ pending = <<>>
        /\ \A i \in 1..Len(threads) : threads[i].pc = "free"
        /\ op' = "load_reports_parallel"
        /\ loaded' = loaded \o done.reports
        /\ cache_files' = done.cache_files
        /\ cache_newer' = done.cache_newer
        /\ threads' = <<>>
        /\ UNCHANGED <<source_files, index, json_files, json_path, listing, pending,
                       load_raised>>
        /\ UNCHANGED mapperVars

\* StreamingLoader.load_reports_streaming, consumed to its end: the reports of all
\* its batches, or the exception it ended with.
LoadStreaming ==
    LET done == load_reports_streaming(index, json_files, cache_files, cache_newer,
                                       NumFiles)
    IN  /\ op = "idle"
        /\ op' = "load_reports_streaming"
        /\ load_raised' = done.raised
        /\ loaded' = IF done.raised THEN <<>> ELSE done.reports
        /\ cache_files' = IF done.raised THEN cache_files ELSE done.cache_files
        /\ cache_newer' = IF done.raised THEN cache_newer ELSE done.cache_newer
        /\ UNCHANGED <<source_files, index, json_files, json_path, listing, pending,
                       threads>>
        /\ UNCHANGED mapperVars

\* The caller takes what the load returned.
LoadReturn ==
    /\ op \in {"load_report_smart", "load_reports_parallel", "load_reports_streaming"}
    /\ op' = "idle"
    /\ json_path' = 0
    /\ listing' = NoListing
    /\ pending' = <<>>
    /\ threads' = <<>>
    /\ loaded' = <<>>
    /\ load_raised' = FALSE
    /\ UNCHANGED <<source_files, index, json_files, cache_files, cache_newer>>
    /\ UNCHANGED mapperVars

CacheNext ==
    \/ \E k \in Sources, force \in BOOLEAN, processed \in ProcessOutcomes,
          cache_write \in CacheWrites :
          ProcessSingleFile(k, force, processed, cache_write)
    \/ \E k \in Sources : ChangeSource(k)
    \/ \E stem \in Stems : DamageCache(stem)
    \/ \E stem \in Stems, valid \in BOOLEAN : RewriteJson(stem, valid)
    \/ \E stem \in Stems, is_cache \in BOOLEAN : RemoveFile(stem, is_cache)
    \/ \E k \in Sources, is_cache \in BOOLEAN : DropPathField(k, is_cache)
    \/ \E stem \in Stems : LoadReportSmart(stem)
    \/ StartParallel(1)
    \/ \E i \in 1..Len(threads) : ThreadStep(i)
    \/ FinishParallel
    \/ LoadStreaming
    \/ LoadReturn

CacheSpec == CacheInit /\ [][CacheNext]_vars

(***************************************************************************)
(* The bulk load with several worker threads                               *)
(***************************************************************************)
\* The index entries, result files and cache files a bulk load may find.
BulkEntries(k) ==
    {SuccessEntry(_get_file_hash(1), StemOf(k)),
     [SuccessEntry(_get_file_hash(1), StemOf(k)) EXCEPT !.result_file = 0],
     [SuccessEntry(_get_file_hash(1), StemOf(k)) EXCEPT !.cache_file = 0]}
BulkJsons(stem) ==
    {MissingJson, InvalidJson,
     JsonOf(_serialize_report(DocumentReport(stem, SourceMtime, NoAnalysis))),
     JsonOf(_serialize_report(DocumentReport(stem, SourceMtime, Analysis)))}
BulkCaches(stem) ==
    {MissingCache, CorruptBinary, PickleOf(DocumentReport(stem, SourceMtime, Analysis))}

BulkInit ==
    /\ project_master = <<>>
    /\ vector_mapper = FALSE
    /\ project_vectors = <<>>
    /\ project_metadata = <<>>
    /\ vector_cache_file = <<>>
    /\ metadata_cache_file = <<>>
    /\ op = "idle"
    /\ args = NoArgs
    /\ backend = BackendFails
    /\ embed_called = FALSE
    /\ search_results = <<>>
    /\ mapping = NoMapping
    /\ report = NewReport
    /\ reasoning = NoReasoning
    /\ source_files = [k \in Sources |-> 1]
    /\ index \in {idx \in [Sources -> UNION {BulkEntries(k) : k \in Sources}] :
                     \A k \in Sources : idx[k] \in BulkEntries(k)}
    /\ json_files \in {f \in [Stems -> UNION {BulkJsons(s) : s \in Stems}] :
                          \A s \in Stems : f[s] \in BulkJsons(s)}
    /\ cache_files \in {f \in [Stems -> UNION {BulkCaches(s) : s \in Stems}] :
                           \A s \in Stems : f[s] \in BulkCaches(s)}
    /\ cache_newer \in {n \in [Stems -> BOOLEAN] :
                           \A s \in Stems :
                               (json_files[s].kind = "missing"
                                \/ cache_files[s].kind = "missing") => n[s]}
    /\ NoLoad

BulkNext ==
    \/ \E max_workers \in 1..MaxWorkers : StartParallel(max_workers)
    \/ \E i \in 1..Len(threads) : ThreadStep(i)
    \/ FinishParallel
    \/ LoadReturn

BulkSpec == BulkInit /\ [][BulkNext]_vars

(***************************************************************************)
(* A bulk load over documents of one name                                  *)
(***************************************************************************)
\* The stem the documents share: report.txt and report.pdf, or a/report.txt and
\* b/report.txt, are both saved as report.json and report.cache.
SharedStem == StemOf(1)

\* The index preprocessing leaves for documents of one name: an entry per
\* document, each naming the result file and the cache file of the shared stem.
SameNameInit ==
    /\ project_master = <<>>
    /\ vector_mapper = FALSE
    /\ project_vectors = <<>>
    /\ project_metadata = <<>>
    /\ vector_cache_file = <<>>
    /\ metadata_cache_file = <<>>
    /\ op = "idle"
    /\ args = NoArgs
    /\ backend = BackendFails
    /\ embed_called = FALSE
    /\ search_results = <<>>
    /\ mapping = NoMapping
    /\ report = NewReport
    /\ reasoning = NoReasoning
    /\ source_files \in [Sources -> Contents]
    /\ index = [k \in Sources |-> SuccessEntry(_get_file_hash(source_files[k]), SharedStem)]
    /\ json_files \in {f \in [Stems -> UNION {BulkJsons(s) : s \in Stems}] :
                          /\ f[SharedStem] \in BulkJsons(SharedStem) \ {MissingJson}
                          /\ \A s \in Stems \ {SharedStem} : f[s] = MissingJson}
    /\ cache_files \in {f \in [Stems -> UNION {BulkCaches(s) : s \in Stems}] :
                           /\ f[SharedStem] \in BulkCaches(SharedStem)
                           /\ \A s \in Stems \ {SharedStem} : f[s] = MissingCache}
    /\ cache_newer \in {n \in [Stems -> BOOLEAN] :
                           \A s \in Stems :
                               (json_files[s].kind = "missing"
                                \/ cache_files[s].kind = "missing") => n[s]}
    /\ NoLoad

SameNameSpec == SameNameInit /\ [][BulkNext]_vars

(***************************************************************************)
(* A manual correction of the project while reports are being loaded       *)
(***************************************************************************)
\* new_project_id of update_source_data: a project other than the mapped one
CorrectedProject == 2

\* One saved report, with or without analysis, and what may have become of its
\* cache file.
CorrectionInit ==
    /\ project_master = <<>>
    /\ vector_mapper = FALSE
    /\ project_vectors = <<>>
    /\ project_metadata = <<>>
    /\ vector_cache_file = <<>>
    /\ metadata_cache_file = <<>>
    /\ op = "idle"
    /\ args = NoArgs
    /\ backend = BackendFails
    /\ embed_called = FALSE
    /\ search_results = <<>>
    /\ mapping = NoMapping
    /\ report = NewReport
    /\ reasoning = NoReasoning
    /\ source_files = [k \in Sources |-> 1]
    /\ index = [k \in Sources |->
                   IF StemOf(k) = SharedStem /\ k = 1
                   THEN SuccessEntry(_get_file_hash(1), SharedStem) ELSE NoEntry]
    /\ \E a \in {NoAnalysis, Analysis} :
          LET r == DocumentReport(SharedStem, SourceMtime, a)
          IN  /\ json_files = [s \in Stems |-> IF s = SharedStem
                                               THEN JsonOf(_serialize_report(r))
                                               ELSE MissingJson]
              /\ cache_files \in {[s \in Stems |-> IF s = SharedStem THEN c
                                                   ELSE MissingCache] :
                                     c \in {MissingCache, CorruptBinary, PickleOf(r)}}
    /\ cache_newer = [s \in Stems |-> TRUE]
    /\ NoLoad

\* load_report_smart(json_path) is entered.
SmartStart(stem) ==
    /\ op = "idle"
    /\ op' = "reading"
    /\ json_path' = stem
    /\ threads' = <<[pc |-> "cache", stem |-> stem, report |-> NoReport]>>
    /\ UNCHANGED <<source_files, index, json_files, cache_files, cache_newer, listing,
                   pending, loaded, load_raised>>
    /\ UNCHANGED mapperVars

\* One step of load_report_smart: the cache is tried (lines 196-211), the JSON
\* file is read and deserialized (lines 214-217), the cache is written and the
\* report returned (lines 219-224).
SmartStep ==
    /\ op = "reading"
    /\ LET th == threads[1]
           stem == th.stem
           use_cache == /\ cache_files[stem].kind # "missing"
                        /\ (json_files[stem].kind = "missing" \/ cache_newer[stem])
           r == IF json_files[stem].kind = "data"
                THEN _deserialize_report(json_files[stem].data) ELSE <<>>
       IN  CASE th.pc = "cache" /\ use_cache /\ cache_files[stem].kind = "pickle" ->
                    /\ loaded' = <<cache_files[stem].report>>
                    /\ op' = "load_report_smart"
                    /\ threads' = <<>>
                    /\ UNCHANGED <<cache_files, cache_newer>>
             [] th.pc = "cache" /\ use_cache /\ cache_files[stem].kind # "pickle" ->
                    /\ cache_files' = [cache_files EXCEPT ![stem] = MissingCache]
                    /\ cache_newer' = [cache_newer EXCEPT ![stem] = TRUE]
                    /\ threads' = [threads EXCEPT ![1].pc = "json"]
                    /\ UNCHANGED <<op, loaded>>
             [] th.pc = "cache" /\ ~use_cache ->
                    /\ threads' = [threads EXCEPT ![1].pc = "json"]
                    /\ UNCHANGED <<op, loaded, cache_files, cache_newer>>
             [] th.pc = "json" /\ r = <<>> ->
                    /\ loaded' = <<>>
                    /\ op' = "load_report_smart"
                    /\ threads' = <<>>
                    /\ UNCHANGED <<cache_files, cache_newer>>
             [] th.pc = "json" /\ r # <<>> ->
                    /\ threads' = [threads EXCEPT ![1].pc = "dump", ![1].report = r[1]]
                    /\ UNCHANGED <<op, loaded, cache_files, cache_newer>>
             [] th.pc = "dump" ->
                    /\ cache_files' = [cache_files EXCEPT ![stem] = PickleOf(th.report)]
                    /\ cache_newer' = [cache_newer EXCEPT ![stem] = TRUE]
                    /\ loaded' = <<th.report>>
                    /\ op' = "load_report_smart"
                    /\ threads' = <<>>
    /\ UNCHANGED <<source_files, index, json_files, json_path, listing, pending,
                   load_raised>>
    /\ UNCHANGED mapperVars

\* update_source_data(file_name, new_project_id) returning True, in the UI
\* process, whatever a loader is doing: the JSON file is rewritten with the new
\* project_id and the cache file, if there is one, is deleted; when the deletion
\* fails the cache stays, older than the JSON file.
UpdateSourceData(stem, unlinked) ==
    /\ op \in {"idle", "reading"}
    /\ json_files[stem].kind = "data"
    /\ json_files[stem].data.project_id # CorrectedProject
    /\ cache_files[stem].kind = "missing" => unlinked
    /\ json_files' = [json_files EXCEPT ![stem].data.project_id = CorrectedProject]
    /\ cache_files' = IF unlinked THEN [cache_files EXCEPT ![stem] = MissingCache]
                      ELSE cache_files
    /\ cache_newer' = [cache_newer EXCEPT ![stem] = unlinked]
    /\ UNCHANGED <<op, source_files, index, json_path, listing, pending, threads,
                   loaded, load_raised>>
    /\ UNCHANGED mapperVars

CorrectionNext ==
    \/ \E stem \in Stems : SmartStart(stem)
    \/ SmartStep
    \/ \E stem \in Stems, unlinked \in BOOLEAN : UpdateSourceData(stem, unlinked)
    \/ LoadReturn

CorrectionSpec == CorrectionInit /\ [][CorrectionNext]_vars

(***************************************************************************)
(* Preprocessing alone: the files and the index process_single_file leaves  *)
(***************************************************************************)
SaveNext ==
    \/ \E k \in Sources, force \in BOOLEAN, processed \in ProcessOutcomes,
          cache_write \in CacheWrites :
          ProcessSingleFile(k, force, processed, cache_write)
    \/ \E k \in Sources : ChangeSource(k)
    \/ \E stem \in Stems, is_cache \in BOOLEAN : RemoveFile(stem, is_cache)

SaveSpec == CacheInit /\ [][SaveNext]_vars

(***************************************************************************)
(* map_project over an index of more projects than the search returns      *)
(***************************************************************************)
MaxIndexed == 4

IndexedIdList == ProjectIdList \o <<<<"P", "5">>>>

\* The indexes update_project_vectors_from_master leaves for a master of n
\* projects: the first n IDs in order, each with an embedding of the backend.
Indexes ==
    UNION {{[i \in 1..n |-> [project_id |-> IndexedIdList[i], embedding |-> e[i]]] :
                e \in [1..n -> StoredVectors]} : n \in 0..MaxIndexed}

MetadataFor(vectors) ==
    [i \in 1..Len(vectors) |->
        [project_id |-> vectors[i].project_id,
         info |-> MasterRecord(vectors[i].project_id)]]

VectorInit ==
    /\ project_master = <<MasterRecord(P1)>>
    /\ vector_mapper = TRUE
    /\ project_vectors \in Indexes
    /\ project_metadata = MetadataFor(project_vectors)
    /\ vector_cache_file = project_vectors
    /\ metadata_cache_file = project_metadata
    /\ op = "idle"
    /\ args = NoArgs
    /\ backend = BackendFails
    /\ embed_called = FALSE
    /\ search_results = <<>>
    /\ mapping = NoMapping
    /\ report = NewReport
    /\ reasoning = NoReasoning
    /\ NoDocuments
    /\ NoLoad

VectorNext ==
    \/ \E q \in Queries, response \in Responses(QueryVectors) : MapProject(q, response)
    \/ Return

VectorSpec == VectorInit /\ [][VectorNext]_vars

(***************************************************************************)
(* Properties                                                              *)
(***************************************************************************)
Mapped == op \in {"map_project", "_apply_project_mapping"}

\* The candidate ID of the query is, as it stands, the project_id of a master record.
CandidateInMaster ==
    /\ args.query.pi = "dict"
    /\ args.query.project_id.kind = "str"
    /\ args.query.project_id.s \in MasterIds(project_master)

\* At least one of the five search fields is present in the query.
AnyFieldPresent ==
    /\ HasProjectInfo(args.query)
    /\ \E f \in QueryFields : Truthy(args.query.fields[f])

Unresolved(m) == m.outcome = "returned" /\ m.project_id = NoneId /\ m.confidence_score = 0

C2_ResultInRegistry ==
    /\ mapping.project_id # NoneId =>
          mapping.project_id.kind = "str" /\ mapping.project_id.s \in MasterIds(project_master)
    /\ report.project_id # NoneId =>
          report.project_id.kind = "str" /\ report.project_id.s \in MasterIds(project_master)

\* C3: a query with a search field and no valid direct ID, against a non-empty
\* registry and a non-empty index that the backend answered for, gets a non-null
\* project_id by the vector method, however low the best similarity is.
C3_VectorTotality ==
    (/\ op = "map_project"
     /\ AnyFieldPresent
     /\ args.query.project_id.kind # "null"
     /\ ~CandidateInMaster
     /\ project_master # <<>>
     /\ project_vectors # <<>>
     /\ embed_called /\ backend.ok) =>
        /\ mapping.outcome = "returned"
        /\ mapping.project_id # NoneId
        /\ mapping.matching_method = "vector_search"

\* C4: the confidence of every mapping map_project returns and of every evidence
\* generate_search_reasoning produces lies in [0, 1].
C4_ConfidenceInRange ==
    /\ mapping.confidence_score \in 0..100
    /\ reasoning.confidence \in 0..100

\* C5 as stated: the confidence of a vector result is the confidence the evidence
\* generator computes from the top hit.
C5_AdjustedConfidence ==
    (Mapped /\ mapping.matching_method = "vector_search") =>
        mapping.confidence_score =
            generate_search_reasoning(project_metadata, args.query_text,
                                      search_results).confidence

\* C5 amended: the confidence of a vector result is the raw cosine similarity of
\* the query vector and the stored vector of the returned project, which is the
\* highest of the index; the adjustment of the evidence generator is not applied.
C5_RawSimilarity ==
    (Mapped /\ mapping.matching_method = "vector_search") =>
        /\ search_results # <<>>
        /\ mapping.project_id = Str(search_results[1].project_id)
        /\ mapping.confidence_score = search_results[1].similarity_score
        /\ mapping.confidence_score =
               _cosine_similarity(backend.embedding,
                                  DictGet(project_vectors, mapping.project_id.s).embedding)
        /\ \A i \in 1..Len(project_vectors) :
               _cosine_similarity(backend.embedding, project_vectors[i].embedding)
                   <= mapping.confidence_score

\* A vector result whose confidence differs from what the evidence generator
\* would give it.
C5_Witness ==
    /\ op = "map_project"
    /\ mapping.matching_method = "vector_search"
    /\ mapping.confidence_score #
           generate_search_reasoning(project_metadata, args.query_text,
                                     search_results).confidence

\* C6: when the embedding call of the vector attempt fails, map_project returns
\* UNRESOLVED (project_id null, confidence 0) and raises nothing.
C6_BackendFailureUnresolved ==
    (Mapped /\ embed_called /\ ~backend.ok) => Unresolved(mapping)

\* map_project reached the backend for a non-empty index and the call failed.
C6_Witness ==
    /\ op = "map_project"
    /\ project_vectors # <<>>
    /\ embed_called
    /\ ~backend.ok
    /\ mapping.matching_method = "vector_search_no_match"

\* C7: map_project returns a ProjectMapping for every query shape and every
\* registry; it never raises.
C7_NeverRaises == op = "map_project" => mapping.outcome = "returned"

NoFieldPresent == ~AnyFieldPresent

Position(dict, key) == CHOOSE i \in 1..Len(dict) : dict[i].project_id = key

\* The place of a project_id in ascending order of the IDs.
IdRank(id) == CHOOSE i \in 1..Len(ProjectIdList) : ProjectIdList[i] = id

SearchBounded ==
    /\ Len(search_results) <= args.top_k
    /\ \A i \in 1..Len(search_results) :
          search_results[i].similarity_score >= args.similarity_threshold
    /\ \A i, j \in 1..Len(search_results) :
          i < j => search_results[i].similarity_score >= search_results[j].similarity_score

\* C9 as stated: a search returns at most top_k entries, each at or above the
\* threshold, sorted by similarity descending, entries of equal similarity in
\* ascending project_id order.
C9_TiesByProjectId ==
    op = "search_similar_projects" =>
        /\ SearchBounded
        /\ \A i, j \in 1..Len(search_results) :
              (i < j /\ search_results[i].similarity_score
                            = search_results[j].similarity_score) =>
                  IdRank(search_results[i].project_id) < IdRank(search_results[j].project_id)

\* C9 amended: a search returns at most top_k entries, each at or above the
\* threshold, sorted by similarity descending; entries of equal similarity appear
\* in the insertion order of the index, so the result depends on that order.
C9_TiesByInsertionOrder ==
    op = "search_similar_projects" =>
        /\ SearchBounded
        /\ \A i \in 1..Len(search_results) : HasKey(project_vectors, search_results[i].project_id)
        /\ \A i, j \in 1..Len(search_results) :
              (i < j /\ search_results[i].similarity_score
                            = search_results[j].similarity_score) =>
                  Position(project_vectors, search_results[i].project_id)
                      < Position(project_vectors, search_results[j].project_id)

\* A search returned two entries of equal similarity, the greater project_id first.
C9_Witness ==
    /\ op = "search_similar_projects"
    /\ Len(search_results) >= 2
    /\ search_results[1].similarity_score = search_results[2].similarity_score
    /\ IdRank(search_results[1].project_id) > IdRank(search_results[2].project_id)

UniqueKeys(dict) == \A i, j \in 1..Len(dict) : dict[i].project_id = dict[j].project_id => i = j

AddCalled == op \in {"add_project", "add_project_failed"}

\* C10: add_project for a project_id the index already holds leaves the index and
\* the metadata as they are, returns True and does not call the embedding backend;
\* the index never holds two entries for one project_id.
C10_AddIdempotent ==
    /\ [][(AddCalled' /\ HasKey(project_vectors, args'.project_id.s)) =>
            /\ project_vectors' = project_vectors
            /\ project_metadata' = project_metadata
            /\ ~embed_called'
            /\ op' = "add_project"]_vars
    /\ [](UniqueKeys(project_vectors) /\ UniqueKeys(project_metadata))

\* add_project was called for a project the index already held.
C10_Witness ==
    /\ op = "add_project"
    /\ ~embed_called
    /\ HasKey(project_vectors, args.project_id.s)
    /\ Len(project_vectors) = 2

\* The master record with this project_id.
RecordOf(master, id) == master[CHOOSE i \in 1..Len(master) : master[i].project_id = id]

\* C11: add_project for a project_id the index holds, with a record that differs
\* from the stored one, calls the embedding backend and, when the backend answers,
\* replaces the stored vector and the stored record.
C11_ChangedRecordReembedded ==
    [][(/\ AddCalled'
        /\ HasKey(project_vectors, args'.project_id.s)
        /\ HasKey(project_metadata, args'.project_id.s)
        /\ DictGet(project_metadata, args'.project_id.s).info
               # RecordOf(project_master, args'.project_id.s)) =>
            /\ embed_called'
            /\ backend'.ok =>
                  /\ DictGet(project_vectors', args'.project_id.s).embedding
                         = backend'.embedding
                  /\ DictGet(project_metadata', args'.project_id.s).info
                         = RecordOf(project_master, args'.project_id.s)]_vars

\* C12: when the vector cache file cannot be deserialized, the index holds an
\* entry for every master record once the constructor has run.
C12_RebuiltFromMaster ==
    (op = "__init__" /\ vector_cache_file = CorruptVectorBlob) =>
        \A i \in 1..Len(project_master) :
            HasKey(project_vectors, project_master[i].project_id)

\* The file names of the reports a load returned.
LoadedIds == {loaded[i].file_name : i \in 1..Len(loaded)}

\* A cache file that load_reports_parallel lists yields a report when it is a
\* pickle or when the JSON file next to it deserializes; a fallback file when it
\* deserializes.
JsonYields(stem) ==
    /\ json_files[stem].kind = "data"
    /\ ~json_files[stem].data.analysis_result.present
CacheFileYields(stem) == cache_files[stem].kind = "pickle" \/ JsonYields(stem)
ExpectedIds ==
    {s \in SeqToSet(listing.cache_files) : CacheFileYields(s)}
        \cup {s \in SeqToSet(listing.fallback_files) : JsonYields(s)}

\* C16: the set of reports load_reports_parallel returns is fixed by the index
\* and the files: it is the same for every number of worker threads and every
\* interleaving of them, and no step of a worker changes whether a file yields
\* a report.
C16_SameSetForEveryInterleaving ==
    /\ [](op = "load_reports_parallel" => LoadedIds = ExpectedIds)
    /\ [][op = "loading" /\ op' = "loading" =>
            /\ json_files' = json_files
            /\ \A s \in Stems : CacheFileYields(s)' = CacheFileYields(s)]_vars

\* Two worker threads were in _load_single_cache_file at once, one of them
\* rewriting a cache, and the load has returned two reports.
C16_Witness ==
    /\ op = "load_reports_parallel"
    /\ Len(listing.cache_files) = 2
    /\ Len(loaded) = 2
    /\ \E s \in Stems : cache_files[s].kind = "pickle"
                        /\ cache_files[s].report.created_at = ProcessedAt

\* The report process_single_file saved in the result file of this stem.
SavedReport(stem) ==
    CHOOSE r \in {DocumentReport(stem, SourceMtime, a) : a \in {NoAnalysis, Analysis}} :
        _serialize_report(r) = json_files[stem].data

\* C13: load_report_smart of a saved report returns a report equal to the one
\* that was saved, from the cache as from the JSON file.
C13_RoundTrip ==
    (op = "load_report_smart" /\ json_files[json_path].kind = "data") =>
        loaded = <<SavedReport(json_path)>>

\* C14: load_report_smart of a report whose cache is corrupt and whose JSON file
\* is intact returns the report, and leaves a valid cache from which the next
\* load returns the same report.
C14_RecoveredFromJson ==
    [][(/\ op = "idle" /\ op' = "load_report_smart"
        /\ cache_files[json_path'].kind = "corrupt"
        /\ json_files[json_path'].kind = "data") =>
            /\ loaded' # <<>>
            /\ cache_files'[json_path'].kind = "pickle"
            /\ load_report_smart(json_files', cache_files', cache_newer',
                                 json_path').result = loaded']_vars

\* The source documents whose processed report a load returned.
Served(k) ==
    /\ op \in {"load_report_smart", "load_reports_parallel", "load_reports_streaming"}
    /\ index[k].status = "success"
    /\ StemOf(k) \in LoadedIds

\* C15: no load returns the report of a source document whose content no longer
\* has the hash stored in its index entry.
C15_StaleNeverServed ==
    \A k \in Sources : Served(k) => index[k].file_hash = _get_file_hash(source_files[k])

\* An index entry with nothing wrong: both paths, a result file and a cache that
\* is a pickle and not older than the result file.
Intact(k) ==
    /\ index[k].status = "success"
    /\ index[k].result_file # 0 /\ index[k].cache_file # 0
    /\ json_files[StemOf(k)].kind = "data"
    /\ cache_files[StemOf(k)].kind = "pickle"
    /\ cache_newer[StemOf(k)]

\* C17: load_reports_parallel and load_reports_streaming end without an exception
\* and return the report of every intact entry, whatever is wrong with the others.
C17_BadEntrySkipped ==
    op \in {"load_reports_parallel", "load_reports_streaming"} =>
        /\ ~load_raised
        /\ \A k \in Sources : Intact(k) => StemOf(k) \in LoadedIds

\* has_unexpected_values is set and a validation issue is recorded
Flagged(r) == r.has_unexpected_values /\ r.validation_issues # <<>>

\* The mapping recorded on the report has a confidence below 0.7.
LowConfidenceMapping(r) ==
    /\ r.project_mapping_info.present
    /\ r.project_mapping_info.confidence_score.n < LowConfidence

\* C18: a report that _apply_project_mapping leaves without a project_id, or with
\* a mapping of confidence below 0.7 by whatever method, is flagged.
C18_LowConfidenceFlagged ==
    (op = "_apply_project_mapping"
     /\ (report.project_id = NoneId \/ LowConfidenceMapping(report)))
        => Flagged(report)

\* The direct attempt of the call returned without a project.
DirectFailed ==
    LET direct_mapping == _strategy_direct_id_extraction(project_master, args.query)
    IN  direct_mapping.outcome = "returned" /\ direct_mapping.project_id = NoneId

FallbackMapping ==
    Mapping(Str(project_master[1].project_id), FallbackConfidence,
            "fallback_first_project", <<>>)

MatchCount ==
    LET info == MetadataOf(project_metadata, search_results[1].project_id)
    IN  SumMatched(MasterFields, info, args.query_text)
        + SumFuzzy(MasterFields, info, args.query_text)

\* C20: for a top hit of similarity s with n matches, the confidence of
\* generate_search_reasoning is min(s + 0.05 n, 0.95) when n >= 1 and min(s, 0.6)
\* when n = 0 (in hundredths).
C20_EvidenceConfidence ==
    (op = "generate_search_reasoning" /\ search_results # <<>>) =>
        LET s == search_results[1].similarity_score
            n == MatchCount
        IN  reasoning.confidence = IF n >= 1 THEN Min(s + 5 * n, 95) ELSE Min(s, 60)

\* A top hit whose boosted confidence met the limit of 0.95.
C20_Witness ==
    /\ op = "generate_search_reasoning"
    /\ search_results # <<>>
    /\ MatchCount >= 1
    /\ search_results[1].similarity_score + 5 * MatchCount > 95
    /\ reasoning.confidence = 95

\* C21: every similarity search_similar_projects reports lies in [0, 1], and with
\* threshold 0 and room in top_k every indexed project is returned, one of negative
\* cosine with similarity 0.
C21_NegativeCosineClamped ==
    (op = "search_similar_projects" /\ embed_called /\ backend.ok) =>
        /\ \A i \in 1..Len(search_results) :
              search_results[i].similarity_score \in 0..100
        /\ (args.similarity_threshold = 0 /\ args.top_k >= Len(project_vectors)) =>
              Len(search_results) = Len(project_vectors)

NoDuplicates(s) == \A i, j \in 1..Len(s) : i # j => s[i] # s[j]

\* C22: a mapping by vector search names the top hit and lists the hits ranked 2
\* and 3, in that order, as alternatives: at most two, distinct and other than
\* the project chosen; a mapping by any other method lists none.
C22_AlternativesAreNextHits ==
    (op = "map_project" /\ mapping.outcome = "returned") =>
        LET alt == mapping.alternative_candidates
        IN  IF mapping.matching_method = "vector_search"
            THEN /\ search_results # <<>>
                 /\ mapping.project_id = Str(search_results[1].project_id)
                 /\ Len(alt) = Min(Len(search_results) - 1, 2)
                 /\ \A i \in 1..Len(alt) : alt[i] = search_results[i + 1].project_id
                 /\ NoDuplicates(alt)
                 /\ \A i \in 1..Len(alt) : Str(alt[i]) # mapping.project_id
            ELSE alt = <<>>

\* The search returned four hits and the mapping lists two of them.
C22_Witness ==
    /\ op = "map_project"
    /\ mapping.matching_method = "vector_search"
    /\ Len(search_results) >= 4
    /\ Len(mapping.alternative_candidates) = 2

\* C23: when the process ends, the vector cache file and the metadata cache file
\* hold every project_id that was added to the index in memory.
C23_AddedIsPersisted ==
    op = "exit" =>
        /\ Keys(project_vectors) \subseteq Keys(vector_cache_file)
        /\ Keys(project_metadata) \subseteq Keys(metadata_cache_file)

\* The cache file of this stem exists, is not older than the JSON file if there is
\* one, and unpickles.
CacheServable(stem) ==
    /\ cache_files[stem].kind = "pickle"
    /\ (json_files[stem].kind = "missing" \/ cache_newer[stem])

\* The report is the one the JSON file of this stem describes.
FromJson(r, stem) ==
    /\ r.file_name = json_files[stem].data.file_name
    /\ r.analysis_result = json_files[stem].data.analysis_result

\* C24: load_report_smart returns the cached report exactly when the cache file
\* exists, is not older than the JSON file and unpickles; otherwise it returns the
\* report of the JSON file and leaves it in the cache file.  load_reports_parallel
\* follows the same rule, so it returns a report for every success entry whose JSON
\* file is readable.
C24_CacheOrJson ==
    /\ [][(op = "idle" /\ op' = "load_report_smart") =>
            IF CacheServable(json_path')
            THEN /\ loaded' = <<cache_files[json_path'].report>>
                 /\ cache_files' = cache_files
            ELSE IF json_files[json_path'].kind = "data"
            THEN /\ Len(loaded') = 1
                 /\ FromJson(loaded'[1], json_path')
                 /\ cache_files'[json_path'] = PickleOf(loaded'[1])
            ELSE loaded' = <<>>]_vars
    /\ [](op = "load_reports_parallel" =>
            \A k \in Sources :
                (/\ index[k].status = "success"
                 /\ index[k].result_file # 0
                 /\ json_files[index[k].result_file].kind = "data")
                    => index[k].result_file \in LoadedIds)

\* The cache file of this stem holds the report its JSON file was written from.
CacheOfJson(stem) ==
    /\ cache_files[stem].kind = "pickle"
    /\ _serialize_report(cache_files[stem].report) = json_files[stem].data

\* A call of process_single_file that is not skipped and whose document was
\* processed into a report.
Saves(k, cache_write) ==
    \E force \in BOOLEAN, processed \in ProcessOutcomes \ {"none"} :
        ProcessSingleFile(k, force, processed, cache_write)

\* What every save leaves: the JSON file of the report, and an index entry of
\* status success that names it, whatever became of the cache file.
SavedJsonAndEntry(k) ==
    /\ json_files'[StemOf(k)].kind = "data"
    /\ json_files'[StemOf(k)].data.file_name = StemOf(k)
    /\ index'[k].status = "success"
    /\ index'[k].result_file = StemOf(k)

\* No step gives an entry the status success without its JSON file on disk.
SuccessOnlyWithJson ==
    \A k \in Sources :
        (index[k].status # "success" /\ index'[k].status = "success") =>
            json_files'[StemOf(k)].kind = "data"

WorksOn(i, stem) == threads[i].pc # "free" /\ threads[i].stem = stem

\* C26: during load_reports_parallel no two workers are at work on the same cache
\* file, so none reads it while another deletes or rewrites it.
C26_WorkersOnDistinctFiles ==
    op = "loading" =>
        \A i, j \in 1..Len(threads), stem \in Stems :
            (WorksOn(i, stem) /\ WorksOn(j, stem)) => i = j

\* The result file of this stem holds a corrected project.
Corrected(stem) ==
    /\ json_files[stem].kind = "data"
    /\ json_files[stem].data.project_id = CorrectedProject

\* C27: once update_source_data has returned True, a load that starts afterwards
\* returns the report with the corrected project_id, whatever a loader was doing
\* during the correction and whether or not the old cache could be deleted.
C27_CorrectionServed ==
    \A stem \in Stems :
        (op = "idle" /\ Corrected(stem)) =>
            LET got == load_report_smart(json_files, cache_files, cache_newer,
                                         stem).result
            IN  got # <<>> /\ got[1].project_id = CorrectedProject

\* C28: between two loads, load_reports_parallel and the batches of
\* load_reports_streaming hold reports of the same files, whatever the state of
\* each entry's cache file, JSON file and cache_file field; the streaming load
\* raises nothing.
C28_LoadersAgree ==
    op = "idle" =>
        LET l == Classify(index, json_files, cache_files, cache_newer, NumFiles)
            parallel == {s \in SeqToSet(l.cache_files) : CacheFileYields(s)}
                            \cup {s \in SeqToSet(l.fallback_files) : JsonYields(s)}
            streaming == load_reports_streaming(index, json_files, cache_files,
                                                cache_newer, NumFiles)
        IN  /\ ~streaming.raised
            /\ parallel = {streaming.reports[i].file_name :
                               i \in 1..Len(streaming.reports)}

\* C29: a call of process_single_file without force is skipped exactly when the
\* index holds an entry for the file, of whatever status, whose hash is the
\* file's current hash; every call that is not skipped leaves the file's entry
\* with the current hash and the status success or error, and every other entry
\* as it was.
C29_SkippedIffSameHash ==
    \A k \in Sources, force \in BOOLEAN, processed \in ProcessOutcomes :
        LET done == process_single_file(index, source_files, json_files, cache_files,
                                        cache_newer, k, force, processed, "written")
            current_hash == _get_file_hash(source_files[k])
        IN  /\ (~force =>
                   (done.status = "skipped" <=>
                       (index[k].status # "none" /\ index[k].file_hash = current_hash)))
            /\ (done.status # "skipped" =>
                   /\ done.index[k].file_hash = current_hash
                   /\ done.index[k].status \in {"success", "error"}
                   /\ done.index[k].status = done.status
                   /\ \A j \in Sources \ {k} : done.index[j] = index[j])

\* A document whose processing failed is in the index with its current hash, so
\* the next call without force skips it, next to a document that was edited
\* after it was processed, which is processed again.
C29_Witness ==
    \E k, j \in Sources :
        /\ index[k].status = "error"
        /\ index[k].file_hash = _get_file_hash(source_files[k])
        /\ index[j].status = "success"
        /\ index[j].file_hash # _get_file_hash(source_files[j])

\* C30: project_vectors and project_metadata have the same keys in every state
\* of a ProjectVectorMapper: after construction from cache files of which either
\* may be missing or corrupt, and after every add_project.
C30_SameKeys ==
    Keys(project_vectors) = Keys(project_metadata)

====
